---- MODULE Spec2Model ----
(***************************************************************************)
(* Detection-and-tracking engine of the bazaar monitor:                    *)
(*   core/detector.py  SaleDetector      (snapshot diffing)                *)
(*   database/models.py BazaarStateModel, TrackedTargetsModel,             *)
(*                      TransactionLogModel (the stores)                   *)
(*   core/tracker.py   TargetTracker     (crediting of sales)              *)
(*   core/alerter.py   Alerter           (delivery and markAlerted)        *)
(*   core/monitor.py   Monitor           (the cycle)                       *)
(*                                                                         *)
(* A nullable SQL column is modelled as a sequence of length at most one:  *)
(* << >> is NULL and <<v>> is the value v.                                 *)
(***************************************************************************)
EXTENDS Integers, Sequences, FiniteSets, TLC

(***************************************************************************)
(* Bounds of the model.                                                    *)
(***************************************************************************)
\* actors (player ids); VipPlayers is config['vip_players']
Players == {1, 2}
VipPlayers == {2}
\* item ids that can be listed in a bazaar
Items == {206, 367}
\* largest listed quantity of one item
MaxQty == 2
\* unit prices of the detector specification
DetectPrices == {50, 100}

\* sale events credited in one behaviour of the ledger specification
MaxLog == 2
\* unit price at which the ledger specification sells each item
LedgerPrice == [i \in Items |-> IF i = 206 THEN 20000000 ELSE 10000000]

Quantities == 1..MaxQty

VARIABLES
    snapshots,        \* player_bazaar_snapshots: player_id -> (item_id -> [quantity, price])
    det,              \* the last call of detect_sales_for_player: arguments, previous snapshot, result
    targets,          \* tracked_targets: player_id -> row, for the tracked players
    transaction_log,  \* transaction_log: the rows in insertion order
    pc,               \* the phase of _run_cycle the monitor is in
    all_sales,        \* Phase 5: the sales of the cycle not yet processed
    fetched,          \* the players whose fetch of this cycle returned data
    targets_to_alert, \* the targets of Phase 9 not yet handed to _send_single_alert
    now,              \* the clock, in hours
    credited,         \* history: per player, the sum of the deltas credited since its row was created
    alerted,          \* history: per player, the value of the last markAlerted, NULL before the first
    marked,           \* history: per player, the value of the last markAlerted of its present row
    monitoring,       \* Phase 4: the players whose monitor_player task has not run yet
    results,          \* Phase 4: the sales of each player whose task returned a result
    emitted,          \* history: the sale events returned by detect_sales_for_player, in order
    applied,          \* history: the sale events passed to add_or_update_target, in order
    previous_status,  \* history: per row, the status_state it held before its last profile update
    visit,            \* history: per player, the rule passes and deductions of its present visit
    rule_targets,     \* history: the table read by the last rule pass of the cycle
    scenario,         \* history: per player, the baseline and the decrease of its first two fetches
    closed,           \* history: the players whose data fetched in this cycle says the bazaar is closed
    ready,            \* the number of on_ready events handled: the global _monitor and monitor_task are the last
    is_running,       \* per Monitor object, its is_running
    task,             \* per task of start_monitoring, where it is, its Monitor and how its last cycle ended
    shutdown,         \* close() of the bot has been called
    key_usage,        \* APIKeyManager.key_usage: per key, its count of calls and its status
    current_index,    \* APIKeyManager.current_index
    fetch,            \* the call of fetch_user_data in progress: where it is, its user and its key
    requests,         \* history: per player, the requests made for it in this cycle and whether its fetch returned
    item_fetch,       \* discover_active_players: per enabled item, where its task is and what session.get gave
    discovery,        \* discover_active_players: where it is, and the players it returned
    acquired,         \* Phase 4: the players whose task has entered the semaphore in this cycle
    key_calls,        \* per key, the requests in flight on it, and the keys reported invalid so far
    plan,             \* history: the store at the start of the cycle and the result of the fetch fixed for each player
    last_send         \* history: the target of the last call of _send_single_alert and whether its message was sent

detVars == <<snapshots, det>>
taskVars == <<monitoring, results, emitted>>
observedVars == <<previous_status, visit, rule_targets>>
loopVars == <<ready, is_running, task, shutdown>>
fetchVars == <<key_usage, current_index, fetch, requests>>
discVars == <<item_fetch, discovery, acquired>>
outerVars == <<closed, key_calls, plan, loopVars, fetchVars, discVars, last_send>>
cycleVars == <<targets, transaction_log, pc, all_sales, fetched, targets_to_alert, now,
               credited, alerted, marked, taskVars, applied, observedVars, scenario, outerVars>>
vars == <<snapshots, det, targets, transaction_log, pc, all_sales, fetched,
          targets_to_alert, now, credited, alerted, marked, monitoring, results, emitted,
          applied, previous_status, visit, rule_targets, scenario, closed,
          ready, is_running, task, shutdown, key_usage, current_index, fetch, requests,
          item_fetch, discovery, acquired, key_calls, plan, last_send>>

(***************************************************************************)
(* Helpers on sequences and sets.                                          *)
(***************************************************************************)
Range(s) == {s[i] : i \in 1..Len(s)}

MinOf(S) == CHOOSE x \in S : \A y \in S : x <= y

\* the elements of a finite set of integers in ascending order
RECURSIVE Ascending(_)
Ascending(S) == IF S = {} THEN << >>
                ELSE <<MinOf(S)>> \o Ascending(S \ {MinOf(S)})

\* all sequences without repeated elements over S, of every length
RECURSIVE Arrangements(_)
Arrangements(S) ==
    IF S = {} THEN {<< >>}
    ELSE {<< >>} \cup UNION {{<<x>> \o t : t \in Arrangements(S \ {x})} : x \in S}

(***************************************************************************)
(* BazaarStateModel: the SnapshotStore.                                    *)
(***************************************************************************)
\* a player with no rows in player_bazaar_snapshots
EmptySnapshot == << >>

\* INSERT OR REPLACE of one row (primary key player_id, item_id)
InsertOrReplace(snapshot, item) ==
    [k \in (DOMAIN snapshot) \cup {item.item_id} |->
        IF k = item.item_id
        THEN [quantity |-> item.quantity, price |-> item.price]
        ELSE snapshot[k]]

RECURSIVE InsertRows(_, _)
InsertRows(snapshot, bazaar_items) ==
    IF bazaar_items = << >> THEN snapshot
    ELSE InsertRows(InsertOrReplace(snapshot, Head(bazaar_items)), Tail(bazaar_items))

\* save_player_snapshot without the DELETE: the new rows are merged into the old
save_player_snapshot_Merge(store, player_id, bazaar_items) ==
    [store EXCEPT ![player_id] = InsertRows(store[player_id], bazaar_items)]

\* DELETE the player's rows, then insert one row per listed item
save_player_snapshot(store, player_id, bazaar_items) ==
    [store EXCEPT ![player_id] = InsertRows(EmptySnapshot, bazaar_items)]

\* SELECT item_id, quantity, price ... WHERE player_id = ?  as a dict
get_player_snapshot(store, player_id) == store[player_id]

(***************************************************************************)
(* SaleDetector.detect_sales_for_player                                    *)
(***************************************************************************)
SaleEvent(player_id, item_id, quantity_sold, unit_price) ==
    [player_id     |-> player_id,
     item_id       |-> item_id,
     quantity_sold |-> quantity_sold,
     unit_price    |-> unit_price,
     total_value   |-> quantity_sold * unit_price]

\* the first loop pricing a sale at the current price of the listing
RECURSIVE DecreasedSales_CurrentPrice(_, _, _)
DecreasedSales_CurrentPrice(player_id, previous_snapshot, current_bazaar) ==
    IF current_bazaar = << >> THEN << >>
    ELSE LET item == Head(current_bazaar)
             rest == DecreasedSales_CurrentPrice(player_id, previous_snapshot, Tail(current_bazaar))
         IN  IF /\ item.item_id \in DOMAIN previous_snapshot
                /\ item.quantity < previous_snapshot[item.item_id].quantity
             THEN <<SaleEvent(player_id, item.item_id,
                              previous_snapshot[item.item_id].quantity - item.quantity,
                              item.price)>> \o rest
             ELSE rest

\* the first loop comparing the quantities with <= instead of <
RECURSIVE DecreasedSales_NotGreater(_, _, _)
DecreasedSales_NotGreater(player_id, previous_snapshot, current_bazaar) ==
    IF current_bazaar = << >> THEN << >>
    ELSE LET item == Head(current_bazaar)
             rest == DecreasedSales_NotGreater(player_id, previous_snapshot, Tail(current_bazaar))
         IN  IF /\ item.item_id \in DOMAIN previous_snapshot
                /\ item.quantity <= previous_snapshot[item.item_id].quantity
             THEN <<SaleEvent(player_id, item.item_id,
                              previous_snapshot[item.item_id].quantity - item.quantity,
                              previous_snapshot[item.item_id].price)>> \o rest
             ELSE rest

\* first loop: one pass over current_bazaar, a sale for every entry whose
\* item was stored with a larger quantity, priced at the stored price
RECURSIVE DecreasedSales(_, _, _)
DecreasedSales(player_id, previous_snapshot, current_bazaar) ==
    IF current_bazaar = << >> THEN << >>
    ELSE LET item == Head(current_bazaar)
             rest == DecreasedSales(player_id, previous_snapshot, Tail(current_bazaar))
         IN  IF /\ item.item_id \in DOMAIN previous_snapshot
                /\ item.quantity < previous_snapshot[item.item_id].quantity
             THEN <<SaleEvent(player_id, item.item_id,
                              previous_snapshot[item.item_id].quantity - item.quantity,
                              previous_snapshot[item.item_id].price)>> \o rest
             ELSE rest

\* the second loop counting one unit for a delisted item
RECURSIVE DelistedSales_OneUnit(_, _, _, _)
DelistedSales_OneUnit(player_id, previous_snapshot, prev_item_ids, current_bazaar) ==
    IF prev_item_ids = << >> THEN << >>
    ELSE LET prev_item_id == Head(prev_item_ids)
             prev_data == previous_snapshot[prev_item_id]
             rest == DelistedSales_OneUnit(player_id, previous_snapshot, Tail(prev_item_ids), current_bazaar)
         IN  IF ~ \E i \in 1..Len(current_bazaar) : current_bazaar[i].item_id = prev_item_id
             THEN <<SaleEvent(player_id, prev_item_id, 1, prev_data.price)>> \o rest
             ELSE rest

\* second loop: one pass over the stored rows, a sale of the whole stored
\* quantity for every item with no entry in current_bazaar
RECURSIVE DelistedSales(_, _, _, _)
DelistedSales(player_id, previous_snapshot, prev_item_ids, current_bazaar) ==
    IF prev_item_ids = << >> THEN << >>
    ELSE LET prev_item_id == Head(prev_item_ids)
             prev_data == previous_snapshot[prev_item_id]
             rest == DelistedSales(player_id, previous_snapshot, Tail(prev_item_ids), current_bazaar)
         IN  IF ~ \E i \in 1..Len(current_bazaar) : current_bazaar[i].item_id = prev_item_id
             THEN <<SaleEvent(player_id, prev_item_id, prev_data.quantity, prev_data.price)>> \o rest
             ELSE rest

\* detect returning early on a missing baseline without storing current
detect_sales_for_player_NoBaseline(store, player_id, current_bazaar) ==
    LET previous_snapshot == get_player_snapshot(store, player_id)
    IN  IF previous_snapshot = EmptySnapshot
        THEN [sales |-> << >>, store |-> store]
        ELSE [sales |-> DecreasedSales(player_id, previous_snapshot, current_bazaar)
                        \o DelistedSales(player_id, previous_snapshot,
                                         Ascending(DOMAIN previous_snapshot), current_bazaar),
              store |-> save_player_snapshot(store, player_id, current_bazaar)]

\* the sales returned and the store after the call
detect_sales_for_player(store, player_id, current_bazaar) ==
    LET previous_snapshot == get_player_snapshot(store, player_id)
    IN  IF previous_snapshot = EmptySnapshot
        THEN [sales |-> << >>,
              store |-> save_player_snapshot(store, player_id, current_bazaar)]
        ELSE [sales |-> DecreasedSales(player_id, previous_snapshot, current_bazaar)
                        \o DelistedSales(player_id, previous_snapshot,
                                         Ascending(DOMAIN previous_snapshot), current_bazaar),
              store |-> save_player_snapshot(store, player_id, current_bazaar)]

(***************************************************************************)
(* TrackedTargetsModel: the TargetLedger.  The table tracked_targets is a  *)
(* function from the tracked player ids to their rows; the keys of         *)
(* sales_breakdown are str(item_id) in the code and item ids here (str is  *)
(* one-to-one on item ids).                                                *)
(***************************************************************************)
NULL == << >>

IsNull(column) == column = NULL

Value(column) == column[1]

\* the row INSERTed for a new target: the profile columns are NULL,
\* travel_state and sa_deduction_applied take the defaults of the schema
NewTarget(value_to_add, item_id, current_time) ==
    [accumulated_value    |-> value_to_add,
     sales_breakdown      |-> [i \in {item_id} |-> value_to_add],
     last_action_minutes  |-> NULL,
     status_state         |-> NULL,
     status_description   |-> NULL,
     travel_state         |-> <<"Okay">>,
     last_sale_time       |-> current_time,
     last_alerted_value   |-> <<0>>,
     sa_deduction_applied |-> FALSE]

\* the entry of the item set to the value instead of increased by it
AddToBreakdown_Overwrite(sales_breakdown, item_id, value_to_add) ==
    [i \in (DOMAIN sales_breakdown) \cup {item_id} |->
        IF i = item_id THEN value_to_add ELSE sales_breakdown[i]]

\* sales_breakdown[str(item_id)] = sales_breakdown.get(str(item_id), 0) + value_to_add
AddToBreakdown(sales_breakdown, item_id, value_to_add) ==
    [i \in (DOMAIN sales_breakdown) \cup {item_id} |->
        IF i = item_id
        THEN (IF i \in DOMAIN sales_breakdown THEN sales_breakdown[i] ELSE 0) + value_to_add
        ELSE sales_breakdown[i]]

\* accumulate storing the value of the sale as the accumulated value of an existing row
add_or_update_target_Overwrite(table, player_id, value_to_add, item_id, current_time) ==
    IF player_id \in DOMAIN table
    THEN [table EXCEPT
            ![player_id].accumulated_value = value_to_add,
            ![player_id].sales_breakdown = AddToBreakdown(@, item_id, value_to_add),
            ![player_id].last_sale_time = current_time]
    ELSE [q \in (DOMAIN table) \cup {player_id} |->
            IF q = player_id THEN NewTarget(value_to_add, item_id, current_time)
            ELSE table[q]]

\* accumulate
add_or_update_target(table, player_id, value_to_add, item_id, current_time) ==
    IF player_id \in DOMAIN table
    THEN [table EXCEPT
            ![player_id].accumulated_value = @ + value_to_add,
            ![player_id].sales_breakdown = AddToBreakdown(@, item_id, value_to_add),
            ![player_id].last_sale_time = current_time]
    ELSE [q \in (DOMAIN table) \cup {player_id} |->
            IF q = player_id THEN NewTarget(value_to_add, item_id, current_time)
            ELSE table[q]]

\* applyProfileUpdate as an INSERT OR REPLACE: a row for every player updated
update_profile_data_Upsert(table, player_id, profile_data) ==
    [q \in (DOMAIN table) \cup {player_id} |->
        IF q /= player_id THEN table[q]
        ELSE [(IF q \in DOMAIN table THEN table[q] ELSE NewTarget(0, 206, 0)) EXCEPT
                 !.last_action_minutes = profile_data.last_action_minutes,
                 !.status_state = <<profile_data.status_state>>,
                 !.status_description = <<profile_data.status_description>>,
                 !.travel_state = <<profile_data.status_state>>]]

\* applyProfileUpdate: UPDATE ... WHERE player_id = ?, nothing without a row
update_profile_data(table, player_id, profile_data) ==
    IF player_id \in DOMAIN table
    THEN [table EXCEPT
            ![player_id].last_action_minutes = profile_data.last_action_minutes,
            ![player_id].status_state = <<profile_data.status_state>>,
            ![player_id].status_description = <<profile_data.status_description>>,
            ![player_id].travel_state = <<profile_data.status_state>>]
    ELSE table

\* executemany of the same UPDATE, one per element of updates
RECURSIVE batch_update_profile_data(_, _)
batch_update_profile_data(table, updates) ==
    IF updates = << >> THEN table
    ELSE batch_update_profile_data(
             update_profile_data(table, Head(updates).player_id, Head(updates).profile_data),
             Tail(updates))

\* setAccumulated never writing sa_deduction_applied
update_accumulated_and_travel_KeepFlag(table, player_id, new_accumulated, sa_deduction_applied) ==
    IF player_id \notin DOMAIN table THEN table
    ELSE [table EXCEPT ![player_id].accumulated_value = new_accumulated]

\* setAccumulated clearing last_alerted_value with the accumulated value
update_accumulated_and_travel_ClearAlerted(table, player_id, new_accumulated, sa_deduction_applied) ==
    IF player_id \notin DOMAIN table THEN table
    ELSE IF ~ IsNull(sa_deduction_applied)
         THEN [table EXCEPT ![player_id].accumulated_value = new_accumulated,
                            ![player_id].last_alerted_value = <<0>>,
                            ![player_id].sa_deduction_applied = Value(sa_deduction_applied)]
         ELSE [table EXCEPT ![player_id].accumulated_value = new_accumulated,
                            ![player_id].last_alerted_value = <<0>>]

\* setAccumulated as an INSERT OR REPLACE of the row
update_accumulated_and_travel_Replace(table, player_id, new_accumulated, sa_deduction_applied) ==
    [q \in (DOMAIN table) \cup {player_id} |->
        IF q /= player_id THEN table[q]
        ELSE [NewTarget(new_accumulated, 206, 0) EXCEPT
                 !.sa_deduction_applied = IF IsNull(sa_deduction_applied) THEN FALSE
                                          ELSE Value(sa_deduction_applied)]]

\* setAccumulated; sa_deduction_applied is NULL (None) or <<TRUE>>, <<FALSE>>
update_accumulated_and_travel(table, player_id, new_accumulated, sa_deduction_applied) ==
    IF player_id \notin DOMAIN table THEN table
    ELSE IF ~ IsNull(sa_deduction_applied)
         THEN [table EXCEPT ![player_id].accumulated_value = new_accumulated,
                            ![player_id].sa_deduction_applied = Value(sa_deduction_applied)]
         ELSE [table EXCEPT ![player_id].accumulated_value = new_accumulated]

reset_sa_deduction(table, player_id) ==
    IF player_id \in DOMAIN table
    THEN [table EXCEPT ![player_id].sa_deduction_applied = FALSE]
    ELSE table

\* drop leaving the row in the table
reset_target_Keep(table, player_id) == table

\* drop: DELETE FROM tracked_targets WHERE player_id = ?
reset_target(table, player_id) ==
    [q \in (DOMAIN table) \ {player_id} |-> table[q]]

\* markAlerted
update_last_alerted(table, player_id, alerted_value) ==
    IF player_id \in DOMAIN table
    THEN [table EXCEPT ![player_id].last_alerted_value = <<alerted_value>>]
    ELSE table

get_watch_list_players(table) == DOMAIN table

\* dict(row) of SELECT *: the columns of the row and its key
TargetDict(table, player_id) ==
    [player_id            |-> player_id,
     accumulated_value    |-> table[player_id].accumulated_value,
     sales_breakdown      |-> table[player_id].sales_breakdown,
     last_action_minutes  |-> table[player_id].last_action_minutes,
     status_state         |-> table[player_id].status_state,
     status_description   |-> table[player_id].status_description,
     travel_state         |-> table[player_id].travel_state,
     last_sale_time       |-> table[player_id].last_sale_time,
     last_alerted_value   |-> table[player_id].last_alerted_value,
     sa_deduction_applied |-> table[player_id].sa_deduction_applied]

\* ORDER BY accumulated_value DESC over the rows of the players in S; rows
\* of equal value come in the order of the table scan (ascending player_id)
RECURSIVE OrderByAccumulatedDesc(_, _)
OrderByAccumulatedDesc(table, S) ==
    IF S = {} THEN << >>
    ELSE LET first == CHOOSE p \in S : \A q \in S :
                          \/ table[p].accumulated_value > table[q].accumulated_value
                          \/ /\ table[p].accumulated_value = table[q].accumulated_value
                             /\ p <= q
         IN  <<TargetDict(table, first)>> \o OrderByAccumulatedDesc(table, S \ {first})

\* the WHERE clause without the test of status_state
AlertCriteria_AnyState(row, min_accumulated, min_inactivity) ==
    /\ row.accumulated_value >= min_accumulated
    /\ ~ IsNull(row.last_action_minutes)
    /\ Value(row.last_action_minutes) >= min_inactivity
    /\ \/ IsNull(row.last_alerted_value)
       \/ row.accumulated_value > Value(row.last_alerted_value)

\* the WHERE clause with accumulated_value >= last_alerted_value
AlertCriteria_NotLess(row, min_accumulated, min_inactivity) ==
    /\ row.accumulated_value >= min_accumulated
    /\ ~ IsNull(row.last_action_minutes)
    /\ Value(row.last_action_minutes) >= min_inactivity
    /\ row.status_state = <<"Okay">>
    /\ \/ IsNull(row.last_alerted_value)
       \/ row.accumulated_value >= Value(row.last_alerted_value)

\* the WHERE clause of get_targets_for_alerts; a comparison with NULL is not true
AlertCriteria(row, min_accumulated, min_inactivity) ==
    /\ row.accumulated_value >= min_accumulated
    /\ ~ IsNull(row.last_action_minutes)
    /\ Value(row.last_action_minutes) >= min_inactivity
    /\ row.status_state = <<"Okay">>
    /\ \/ IsNull(row.last_alerted_value)
       \/ row.accumulated_value > Value(row.last_alerted_value)

\* selectEligible
get_targets_for_alerts(table, min_accumulated, min_inactivity) ==
    OrderByAccumulatedDesc(table,
        {p \in DOMAIN table : AlertCriteria(table[p], min_accumulated, min_inactivity)})

get_all_targets(table) == OrderByAccumulatedDesc(table, DOMAIN table)

(***************************************************************************)
(* TargetTracker.process_detected_sales and TransactionLogModel            *)
(***************************************************************************)
\* one row of transaction_log, appended in insertion order
log_transaction(log, sale) ==
    Append(log, [player_id   |-> sale.player_id,
                 item_id     |-> sale.item_id,
                 quantity    |-> sale.quantity_sold,
                 unit_price  |-> sale.unit_price,
                 total_value |-> sale.total_value])

\* one iteration crediting the unit price of the sale instead of its value
ProcessSale_UnitPrice(state, sale, current_time) ==
    [log   |-> log_transaction(state.log, sale),
     table |-> add_or_update_target(state.table, sale.player_id, sale.unit_price,
                                    sale.item_id, current_time)]

\* one iteration of the loop: the sale is logged, then credited
ProcessSale(state, sale, current_time) ==
    [log   |-> log_transaction(state.log, sale),
     table |-> add_or_update_target(state.table, sale.player_id, sale.total_value,
                                    sale.item_id, current_time)]

\* the loop over the sales of a cycle, in the order of the list
RECURSIVE process_detected_sales(_, _, _)
process_detected_sales(state, sales, current_time) ==
    IF sales = << >> THEN state
    ELSE process_detected_sales(ProcessSale(state, Head(sales), current_time),
                                Tail(sales), current_time)

(***************************************************************************)
(* TargetTracker.apply_business_logic: the RuleEngine.  The tests on the   *)
(* text of status_description are tests of membership in the descriptions  *)
(* that contain (or start with) the searched text.                         *)
(***************************************************************************)
SA_DEDUCTION == 20000000
ONLINE_MINUTES == 2
STALE_HOURS == 2

Descriptions ==
    {"Okay", "In hospital for 10 mins", "In federal jail for 2 days", "Mugged by Duke",
     "Traveling to Cayman Islands", "In Cayman Islands", "Returning to Torn from Cayman Islands",
     "Traveling to South Africa", "In South Africa", "Returning to Torn from South Africa"}

\* status_description == "Cayman Islands"
ContainsCaymanIslands_Exact(description) == description \in {"Cayman Islands"}

\* "Cayman Islands" in status_description
ContainsCaymanIslands(description) ==
    description \in {"Traveling to Cayman Islands", "In Cayman Islands",
                     "Returning to Torn from Cayman Islands"}

\* "South Africa" in status_description
ContainsSouthAfrica(description) ==
    description \in {"Traveling to South Africa", "In South Africa",
                     "Returning to Torn from South Africa"}

\* "Returning" in status_description
ContainsReturning(description) ==
    description \in {"Returning to Torn from Cayman Islands",
                     "Returning to Torn from South Africa"}

\* status_description == 'Mugged by'
StartsWithMuggedBy_Exact(description) == description \in {"Mugged by"}

\* status_description.startswith('Mugged by')
StartsWithMuggedBy(description) == description \in {"Mugged by Duke"}

Done(table) == [table |-> table, raised |-> FALSE]

\* comparing None with 2, or searching a text in None, raises TypeError
Raised(table) == [table |-> table, raised |-> TRUE]

\* the body of the loop with the federal jail rule sparing the VIPs
BusinessLogicFor_FederalSparesVip(table, target) ==
    IF IsNull(target.last_action_minutes) \/ IsNull(target.status_description)
    THEN Raised(table)
    ELSE
    LET player_id == target.player_id
        vip == player_id \in VipPlayers
        status_description == Value(target.status_description)
        is_traveling == target.status_state = <<"Abroad">>
        is_online == Value(target.last_action_minutes) < ONLINE_MINUTES
        cayman == ContainsCaymanIslands(status_description)
        t1 == IF cayman THEN update_accumulated_and_travel(table, player_id, 0, NULL) ELSE table
        acc1 == IF cayman THEN 0 ELSE target.accumulated_value
        deduct == /\ ContainsSouthAfrica(status_description)
                  /\ ~ ContainsReturning(status_description)
                  /\ ~ target.sa_deduction_applied
        t2 == IF deduct
              THEN update_accumulated_and_travel(t1, player_id, acc1 - SA_DEDUCTION, <<TRUE>>)
              ELSE t1
        sa2 == target.sa_deduction_applied \/ deduct
        is_mugged == StartsWithMuggedBy(status_description)
        t3 == IF is_mugged THEN update_accumulated_and_travel(t2, player_id, 0, NULL) ELSE t2
        online_reset == is_online /\ ~ is_traveling
        t4 == IF online_reset THEN update_accumulated_and_travel(t3, player_id, 0, NULL) ELSE t3
        landed == target.status_state = <<"Okay">> /\ target.travel_state = <<"Abroad">>
        t5 == IF landed /\ sa2 THEN reset_sa_deduction(t4, player_id) ELSE t4
    IN  IF cayman /\ ~ vip THEN Done(reset_target(table, player_id))
        ELSE IF is_mugged /\ ~ vip THEN Done(reset_target(t2, player_id))
        ELSE IF online_reset /\ ~ vip THEN Done(reset_target(t3, player_id))
        ELSE IF target.status_state = <<"Federal">> /\ ~ vip
        THEN Done(reset_target(t5, player_id))
        ELSE Done(t5)

\* the body of the loop for one target, read from all_targets before the loop
BusinessLogicFor(table, target) ==
    IF IsNull(target.last_action_minutes) \/ IsNull(target.status_description)
    THEN Raised(table)
    ELSE
    LET player_id == target.player_id
        vip == player_id \in VipPlayers
        status_description == Value(target.status_description)
        is_traveling == target.status_state = <<"Abroad">>
        is_online == Value(target.last_action_minutes) < ONLINE_MINUTES
        cayman == ContainsCaymanIslands(status_description)
        \* CAYMAN ISLANDS
        t1 == IF cayman THEN update_accumulated_and_travel(table, player_id, 0, NULL) ELSE table
        acc1 == IF cayman THEN 0 ELSE target.accumulated_value
        \* SOUTH AFRICA
        deduct == /\ ContainsSouthAfrica(status_description)
                  /\ ~ ContainsReturning(status_description)
                  /\ ~ target.sa_deduction_applied
        t2 == IF deduct
              THEN update_accumulated_and_travel(t1, player_id, acc1 - SA_DEDUCTION, <<TRUE>>)
              ELSE t1
        sa2 == target.sa_deduction_applied \/ deduct
        \* MUGGED
        is_mugged == StartsWithMuggedBy(status_description)
        t3 == IF is_mugged THEN update_accumulated_and_travel(t2, player_id, 0, NULL) ELSE t2
        \* ONLINE STATUS
        online_reset == is_online /\ ~ is_traveling
        t4 == IF online_reset THEN update_accumulated_and_travel(t3, player_id, 0, NULL) ELSE t3
        \* LANDED BACK IN TORN
        landed == target.status_state = <<"Okay">> /\ target.travel_state = <<"Abroad">>
        t5 == IF landed /\ sa2 THEN reset_sa_deduction(t4, player_id) ELSE t4
    IN  IF cayman /\ ~ vip THEN Done(reset_target(table, player_id))
        ELSE IF is_mugged /\ ~ vip THEN Done(reset_target(t2, player_id))
        ELSE IF online_reset /\ ~ vip THEN Done(reset_target(t3, player_id))
        \* FEDERAL JAIL
        ELSE IF target.status_state = <<"Federal">> THEN Done(reset_target(t5, player_id))
        ELSE Done(t5)

\* the loop over all_targets; a raise leaves the loop
RECURSIVE BusinessLogicLoop(_, _)
BusinessLogicLoop(table, all_targets) ==
    IF all_targets = << >> THEN Done(table)
    ELSE LET r == BusinessLogicFor(table, Head(all_targets))
         IN  IF r.raised THEN r ELSE BusinessLogicLoop(r.table, Tail(all_targets))

\* _drop_stale_targets_2hr over the same all_targets
RECURSIVE drop_stale_targets_2hr_AlsoVip(_, _, _)
drop_stale_targets_2hr_AlsoVip(table, all_targets, current_time) ==
    IF all_targets = << >> THEN table
    ELSE LET target == Head(all_targets)
             stale == target.last_sale_time < current_time - STALE_HOURS
         IN  drop_stale_targets_2hr_AlsoVip(
                 IF stale THEN reset_target(table, target.player_id) ELSE table,
                 Tail(all_targets), current_time)

RECURSIVE drop_stale_targets_2hr(_, _, _)
drop_stale_targets_2hr(table, all_targets, current_time) ==
    IF all_targets = << >> THEN table
    ELSE LET target == Head(all_targets)
             stale == target.last_sale_time < current_time - STALE_HOURS
         IN  drop_stale_targets_2hr(
                 IF stale /\ target.player_id \notin VipPlayers
                 THEN reset_target(table, target.player_id) ELSE table,
                 Tail(all_targets), current_time)

apply_business_logic(table, current_time) ==
    LET all_targets == get_all_targets(table)
        r == BusinessLogicLoop(table, all_targets)
    IN  IF r.raised THEN r
        ELSE Done(drop_stale_targets_2hr(r.table, all_targets, current_time))

(***************************************************************************)
(* Inputs: a fetched bazaar is a list with one entry per listed item id.   *)
(***************************************************************************)
RECURSIVE EntryLists(_, _)
EntryLists(item_ids, prices) ==
    IF item_ids = << >> THEN {<< >>}
    ELSE {<<[item_id |-> Head(item_ids), quantity |-> q, price |-> p]>> \o t :
            q \in Quantities, p \in prices, t \in EntryLists(Tail(item_ids), prices)}

Bazaars(prices) == UNION {EntryLists(order, prices) : order \in Arrangements(Items)}

(***************************************************************************)
(* Detector specification: one call of detect_sales_for_player from every  *)
(* content of the store that earlier calls can have left (each player has  *)
(* no rows, or the rows a save_player_snapshot wrote).                     *)
(***************************************************************************)
StoredSnapshots(prices) == {InsertRows(EmptySnapshot, b) : b \in Bazaars(prices)}

NoCall == [called |-> FALSE]

\* history of a visit: the rule passes over the present row of the player
\* since the visit began (counted up to two) and the deductions of the visit
NoVisit == [passes |-> 0, deductions |-> 0]

\* history of the first fetches of a player: the entry stored as baseline,
\* the entry of the fetch after it, and the numbers of its sales emitted and
\* logged when the baseline was stored
NoScenario == [stage |-> "none", first |-> NULL, second |-> NULL, emitted |-> 0, logged |-> 0]

\* the keys of the pool, in the order of api_keys
ApiKeys == <<"key-a", "key-b">>

\* the calls a key serves in a minute
KEY_CALL_LIMIT == 40

NoFetch == [at |-> "idle", user_id |-> 0, api_key |-> NULL]

NoRequests == [made |-> 0, returned |-> FALSE]

\* the bound of the on_ready events of a behaviour
MaxReady == 2

Monitors == 1..MaxReady

NoTask == [at |-> "none", monitor |-> 0, last |-> "none"]

NoSend == [player_id |-> 0, sent |-> FALSE]

InitCycleVars ==
    /\ targets = << >>
    /\ transaction_log = << >>
    /\ pc = "idle"
    /\ all_sales = << >>
    /\ fetched = {}
    /\ targets_to_alert = << >>
    /\ now = 0
    /\ credited = [p \in Players |-> 0]
    /\ alerted = [p \in Players |-> NULL]
    /\ marked = [p \in Players |-> NULL]
    /\ monitoring = {}
    /\ results = << >>
    /\ emitted = << >>
    /\ applied = << >>
    /\ previous_status = [p \in Players |-> NULL]
    /\ visit = [p \in Players |-> NoVisit]
    /\ rule_targets = << >>
    /\ scenario = [p \in Players |-> NoScenario]
    /\ closed = {}
    /\ ready = 0
    /\ is_running = [m \in Monitors |-> FALSE]
    /\ task = [t \in Monitors |-> NoTask]
    /\ shutdown = FALSE
    /\ key_usage = [k \in 1..Len(ApiKeys) |-> [count |-> 0, status |-> "active"]]
    /\ current_index = 1
    /\ fetch = NoFetch
    /\ requests = [p \in Players |-> NoRequests]
    /\ item_fetch = << >>
    /\ discovery = [at |-> "idle", players |-> {}]
    /\ acquired = {}
    /\ last_send = NoSend
    /\ key_calls = [in_flight |-> [k \in 1..Len(ApiKeys) |-> 0], invalid |-> {}]
    /\ plan = [snapshots |-> [p \in Players |-> EmptySnapshot], data |-> [p \in Players |-> NULL]]

InitDetect ==
    /\ snapshots \in [Players -> StoredSnapshots(DetectPrices)]
    /\ det = NoCall
    /\ InitCycleVars

Detect(player_id, current_bazaar) ==
    /\ ~ det.called
    /\ LET r == detect_sales_for_player(snapshots, player_id, current_bazaar)
       IN  /\ snapshots' = r.store
           /\ det' = [called    |-> TRUE,
                      player_id |-> player_id,
                      current   |-> current_bazaar,
                      previous  |-> snapshots,
                      sales     |-> r.sales]
    /\ UNCHANGED cycleVars

NextDetect == \E p \in Players, b \in Bazaars(DetectPrices) : Detect(p, b)

SpecDetect == InitDetect /\ [][NextDetect]_vars

(***************************************************************************)
(* Monitor._run_cycle from Phase 5 on, and Alerter.                        *)
(***************************************************************************)
MIN_ACCUMULATED == 10000000
MIN_INACTIVITY == 2

\* Phase 5: the sales of the results, in the order of the results
RECURSIVE AllSales(_, _)
AllSales(sales_of, player_ids) ==
    IF player_ids = << >> THEN << >>
    ELSE sales_of[Head(player_ids)] \o AllSales(sales_of, Tail(player_ids))

\* Phase 5: one profile update per result, in the order of the results
RECURSIVE ProfileUpdates(_, _)
ProfileUpdates(profile_of, player_ids) ==
    IF player_ids = << >> THEN << >>
    ELSE <<[player_id |-> Head(player_ids), profile_data |-> profile_of[Head(player_ids)]]>>
         \o ProfileUpdates(profile_of, Tail(player_ids))

RECURSIVE SumValues(_)
SumValues(sales) ==
    IF sales = << >> THEN 0 ELSE Head(sales).total_value + SumValues(Tail(sales))

SalesOfPlayer(sales, player_id) == SelectSeq(sales, LAMBDA e : e.player_id = player_id)

\* the history variables follow the rows: a deleted row forgets its credit
CreditedAfter(table_after, credit) ==
    [p \in Players |-> IF p \in DOMAIN table_after THEN credit[p] ELSE 0]

MarkedAfter(table_after, mark) ==
    [p \in Players |-> IF p \in DOMAIN table_after THEN mark[p] ELSE NULL]

\* the description says the player is on the way to South Africa or in it
InTransitPenalty(description) ==
    description \in {"Traveling to South Africa", "In South Africa"}

\* the description names the trip to South Africa, the way back included
OnTripToSouthAfrica(description) ==
    description \in {"Traveling to South Africa", "In South Africa",
                     "Returning to Torn from South Africa"}

\* a visit lasts until the player is fetched off the trip to South Africa
VisitAfterProfiles(profile_of) ==
    [p \in Players |->
        IF p \in DOMAIN profile_of /\ ~ OnTripToSouthAfrica(profile_of[p].status_description)
        THEN NoVisit ELSE visit[p]]

\* a pass over a row that stays counts for the visit of its player, and it
\* has deducted when it has set the flag of the row; a deleted row ends the
\* count of the passes, not the visit
VisitAfterRules(table_after, raised) ==
    [p \in Players |->
        IF p \notin DOMAIN targets \/ raised THEN visit[p]
        ELSE IF p \notin DOMAIN table_after THEN [visit[p] EXCEPT !.passes = 0]
        ELSE IF ~ InTransitPenalty(Value(targets[p].status_description)) THEN visit[p]
        ELSE [passes     |-> IF visit[p].passes < 2 THEN visit[p].passes + 1 ELSE 2,
              deductions |-> IF table_after[p].sa_deduction_applied
                                /\ ~ targets[p].sa_deduction_applied
                             THEN visit[p].deductions + 1 ELSE visit[p].deductions]]

\* Phase 6: process_detected_sales(all_sales)
ProcessDetectedSales ==
    /\ pc = "process"
    /\ LET r == process_detected_sales([log |-> transaction_log, table |-> targets],
                                       all_sales, now)
       IN  /\ transaction_log' = r.log
           /\ targets' = r.table
    /\ credited' = [p \in Players |-> credited[p] + SumValues(SalesOfPlayer(all_sales, p))]
    /\ applied' = applied \o all_sales
    /\ all_sales' = << >>
    /\ pc' = "profiles"
    /\ UNCHANGED <<detVars, fetched, targets_to_alert, now, alerted, marked, taskVars,
                   observedVars, scenario, outerVars>>

\* Phase 6 when a statement of the database raises at the k-th sale, in
\* log_transaction ("log") or, the row logged, in add_or_update_target
\* ("credit"): the sales before it are processed, the handler of _run_cycle
\* logs the error and the cycle ends
ProcessDetectedSalesRaises(k, stage) ==
    /\ pc = "process"
    /\ k \in 1..Len(all_sales)
    /\ LET before == SubSeq(all_sales, 1, k - 1)
           r == process_detected_sales([log |-> transaction_log, table |-> targets], before, now)
       IN  /\ transaction_log' = IF stage = "credit" THEN log_transaction(r.log, all_sales[k])
                                 ELSE r.log
           /\ targets' = r.table
           /\ credited' = [p \in Players |-> credited[p] + SumValues(SalesOfPlayer(before, p))]
           /\ applied' = applied \o before
    /\ all_sales' = << >>
    /\ fetched' = {}
    /\ pc' = "idle"
    /\ UNCHANGED <<detVars, targets_to_alert, now, alerted, marked, taskVars,
                   observedVars, scenario, outerVars>>

\* Phase 7: batch_update_profile_data(profile_updates).  profile_of is the
\* parsed profile of each fetched player; it is drawn here, where the cycle
\* first reads it.
UpdateProfiles(profile_of) ==
    /\ pc = "profiles"
    /\ targets' = batch_update_profile_data(targets, ProfileUpdates(profile_of, Ascending(fetched)))
    /\ pc' = "rules"
    /\ UNCHANGED <<detVars, transaction_log, all_sales, fetched, targets_to_alert, now,
                   credited, alerted, marked, taskVars, applied,
                   scenario, outerVars>>

BatchUpdateProfileData(profile_of) ==
    /\ UpdateProfiles(profile_of)
    /\ UNCHANGED observedVars

\* Phase 7, the history of the statuses and of the visits recorded
ObservedBatchUpdateProfileData(profile_of) ==
    /\ UpdateProfiles(profile_of)
    /\ previous_status' = [p \in Players |->
                               IF p \in fetched /\ p \in DOMAIN targets
                               THEN targets[p].status_state ELSE previous_status[p]]
    /\ visit' = VisitAfterProfiles(profile_of)
    /\ rule_targets' = << >>

\* Phase 8: apply_business_logic(); a raise ends the cycle in the handler
\* of _run_cycle
ApplyRules ==
    /\ pc = "rules"
    /\ LET r == apply_business_logic(targets, now)
       IN  /\ targets' = r.table
           /\ pc' = IF r.raised THEN "idle" ELSE "select"
           /\ fetched' = IF r.raised THEN {} ELSE fetched
           /\ credited' = CreditedAfter(r.table, credited)
           /\ marked' = MarkedAfter(r.table, marked)
    /\ UNCHANGED <<detVars, transaction_log, all_sales, targets_to_alert, now, alerted,
                   taskVars, applied,
                   scenario, outerVars>>

ApplyBusinessLogic ==
    /\ ApplyRules
    /\ UNCHANGED observedVars

\* Phase 8, the history of the statuses and of the visits recorded
ObservedApplyBusinessLogic ==
    /\ ApplyRules
    /\ LET r == apply_business_logic(targets, now)
       IN  /\ previous_status' = MarkedAfter(r.table, previous_status)
           /\ visit' = VisitAfterRules(r.table, r.raised)
           /\ rule_targets' = IF r.raised THEN << >> ELSE targets

\* the targets to alert selected in place of the rule engine
GetTargetsForAlerts_BeforeRules ==
    /\ pc = "rules"
    /\ targets_to_alert' = get_targets_for_alerts(targets, MIN_ACCUMULATED, MIN_INACTIVITY)
    /\ pc' = "deliver"
    /\ UNCHANGED <<detVars, targets, transaction_log, all_sales, fetched, now,
                   credited, alerted, marked, taskVars, applied,
                   observedVars, scenario, outerVars>>

\* Phase 9: get_targets_for_alerts(min_accumulated, min_inactivity)
GetTargetsForAlerts ==
    /\ pc = "select"
    /\ targets_to_alert' = get_targets_for_alerts(targets, MIN_ACCUMULATED, MIN_INACTIVITY)
    /\ pc' = "deliver"
    /\ UNCHANGED <<detVars, targets, transaction_log, all_sales, fetched, now,
                   credited, alerted, marked, taskVars, applied,
                   observedVars, scenario, outerVars>>

\* Phase 10: _send_single_alert for the next target.  The message is sent,
\* logged and the target marked, or a step raises and the handler of
\* _send_single_alert logs the failure: before the send ("failed") or after
\* it, in log_alert or update_last_alerted ("unmarked").
SendAlert(outcome) ==
    /\ pc = "deliver"
    /\ targets_to_alert /= << >>
    /\ LET target == Head(targets_to_alert)
       IN  IF outcome = "sent"
           THEN /\ targets' = update_last_alerted(targets, target.player_id,
                                                  target.accumulated_value)
                /\ alerted' = [alerted EXCEPT ![target.player_id] = <<target.accumulated_value>>]
                /\ marked' = [marked EXCEPT ![target.player_id] =
                                  IF target.player_id \in DOMAIN targets
                                  THEN <<target.accumulated_value>> ELSE NULL]
           ELSE UNCHANGED <<targets, alerted, marked>>
    /\ targets_to_alert' = Tail(targets_to_alert)
    /\ UNCHANGED <<detVars, transaction_log, pc, all_sales, fetched, now, credited,
                   taskVars, applied,
                   observedVars, scenario, closed, key_calls, plan, loopVars, fetchVars, discVars>>

SendSingleAlert(outcome) ==
    /\ SendAlert(outcome)
    /\ UNCHANGED last_send

\* Phase 10, the history of the call recorded: the message is sent when
\* nothing raises before channel.send has returned
ObservedSendSingleAlert(outcome) ==
    /\ SendAlert(outcome)
    /\ last_send' = [player_id |-> Head(targets_to_alert).player_id,
                     sent      |-> outcome \in {"sent", "unmarked"}]

\* the end of _run_cycle and the sleep of the loop
EndCycle ==
    /\ pc = "deliver"
    /\ targets_to_alert = << >>
    /\ pc' = "idle"
    /\ fetched' = {}
    /\ UNCHANGED <<detVars, targets, transaction_log, all_sales, targets_to_alert, now,
                   credited, alerted, marked, taskVars, applied,
                   observedVars, scenario, outerVars>>

CycleTail(Profiles) ==
    \/ ProcessDetectedSales
    \/ \E k \in 1..MaxLog, stage \in {"log", "credit"} : ProcessDetectedSalesRaises(k, stage)
    \/ \E profile_of \in [fetched -> Profiles] : BatchUpdateProfileData(profile_of)
    \/ ApplyBusinessLogic
    \/ GetTargetsForAlerts
    \/ \E outcome \in {"sent", "failed", "unmarked"} : SendSingleAlert(outcome)
    \/ EndCycle

(***************************************************************************)
(* Ledger specification: cycles from Phase 5 on, over every result that    *)
(* Phase 4 can have gathered: each player is fetched or not, a fetched     *)
(* player has at most one sale per item and a parsed profile.              *)
(***************************************************************************)
Profile(minutes, state, description) ==
    [last_action_minutes |-> minutes, status_state |-> state, status_description |-> description]

LedgerProfiles ==
    {Profile(<<5>>, "Okay", "Okay"),
     Profile(<<0>>, "Okay", "Okay"),
     Profile(<<5>>, "Abroad", "In South Africa")}

RECURSIVE SalesOfItems(_, _)
SalesOfItems(player_id, item_ids) ==
    IF item_ids = << >> THEN << >>
    ELSE <<SaleEvent(player_id, Head(item_ids), 1, LedgerPrice[Head(item_ids)])>>
         \o SalesOfItems(player_id, Tail(item_ids))

\* Phase 4 has gathered a result for the players of fetched_players, with
\* the sales of sales_of, and Phase 5 has collected the sales
GatherResults(fetched_players, order_sold) ==
    /\ pc = "idle"
    /\ fetched' = fetched_players
    /\ all_sales' = AllSales([p \in fetched_players |-> SalesOfItems(p, order_sold[p])],
                             Ascending(fetched_players))
    /\ Len(transaction_log) + Len(all_sales') <= MaxLog
    /\ pc' = "process"
    /\ UNCHANGED <<detVars, targets, transaction_log, targets_to_alert, now, credited,
                   alerted, marked, taskVars, applied,
                   observedVars, scenario, outerVars>>

InitLedger ==
    /\ snapshots = [p \in Players |-> EmptySnapshot]
    /\ det = NoCall
    /\ InitCycleVars

NextLedger ==
    \/ \E fetched_players \in SUBSET Players :
          \E order_sold \in [fetched_players -> Arrangements(Items)] :
             GatherResults(fetched_players, order_sold)
    \/ CycleTail(LedgerProfiles)

SpecLedger == InitLedger /\ [][NextLedger]_vars

(***************************************************************************)
(* Cycle specification: Monitor._run_cycle from Phase 1 on.  Each task of   *)
(* Phase 4 fetches a bazaar that lists one item at one price and calls     *)
(* detect_sales_for_player; the tasks run in any order and the results are *)
(* collected in the order of the tasks.                                    *)
(***************************************************************************)
CyclePrices == {LedgerPrice[367]}

CycleItems == {367}

\* the quantities a listing of the cycle specification shows
CycleQuantities == {2, 5}

RECURSIVE EntryListsOf(_, _, _)
EntryListsOf(item_ids, quantities, prices) ==
    IF item_ids = << >> THEN {<< >>}
    ELSE {<<[item_id |-> Head(item_ids), quantity |-> q, price |-> p]>> \o t :
            q \in quantities, p \in prices, t \in EntryListsOf(Tail(item_ids), quantities, prices)}

CycleBazaars ==
    UNION {EntryListsOf(Ascending(S), CycleQuantities, CyclePrices) : S \in SUBSET CycleItems}

\* the history of the first fetches of player_id after the task has fetched
\* current_bazaar: a player without row and without snapshot that lists one
\* entry has its baseline stored; the next fetch of the same listing with a
\* smaller quantity, the player still without row, is the decrease
ScenarioAfterFetch(player_id, current_bazaar) ==
    LET s == scenario[player_id]
    IN  IF player_id \in DOMAIN targets \/ Len(current_bazaar) /= 1 THEN NoScenario
        ELSE IF snapshots[player_id] = EmptySnapshot
        THEN [stage   |-> "baseline", first |-> current_bazaar, second |-> NULL,
              emitted |-> Len(SalesOfPlayer(emitted, player_id)),
              logged  |-> Len(SalesOfPlayer(transaction_log, player_id))]
        ELSE IF /\ s.stage = "baseline"
                /\ current_bazaar[1].item_id = s.first[1].item_id
                /\ current_bazaar[1].price = s.first[1].price
                /\ current_bazaar[1].quantity < s.first[1].quantity
        THEN [s EXCEPT !.stage = "sold", !.second = current_bazaar]
        ELSE NoScenario

CycleProfiles ==
    {Profile(<<5>>, "Okay", "Okay"),
     Profile(<<0>>, "Okay", "Okay")}

\* Phases 1 to 3: the players discovered, those of the watch list and the VIPs
StartCycle(discovered_players) ==
    /\ pc = "idle"
    /\ LET watch_list_players == get_watch_list_players(targets) \cup VipPlayers
           active_monitoring == discovered_players \cup watch_list_players
       IN  IF active_monitoring = {}
           THEN UNCHANGED <<pc, monitoring, results>>
           ELSE /\ monitoring' = active_monitoring
                /\ results' = << >>
                /\ pc' = "monitor"
    /\ scenario' = [p \in Players |-> IF scenario[p].stage = "sold" THEN NoScenario
                                       ELSE scenario[p]]
    /\ UNCHANGED <<detVars, targets, transaction_log, all_sales, fetched, targets_to_alert, now,
                   credited, alerted, marked, emitted, applied,
                   observedVars, outerVars>>

\* the task storing an empty snapshot when fetch_user_data returned nothing
MonitorPlayer_FailedStoresEmpty(player_id, data) ==
    /\ pc = "monitor"
    /\ player_id \in monitoring
    /\ monitoring' = monitoring \ {player_id}
    /\ IF IsNull(data)
       THEN /\ snapshots' = [snapshots EXCEPT ![player_id] = EmptySnapshot]
            /\ UNCHANGED <<results, emitted, scenario>>
       ELSE LET r == detect_sales_for_player(snapshots, player_id, Value(data))
            IN  /\ Len(emitted) + Len(r.sales) <= MaxLog
                /\ scenario' = [scenario EXCEPT
                                    ![player_id] = ScenarioAfterFetch(player_id, Value(data))]
                /\ snapshots' = r.store
                /\ results' = [q \in (DOMAIN results) \cup {player_id} |->
                                  IF q = player_id THEN r.sales ELSE results[q]]
                /\ emitted' = emitted \o r.sales
    /\ UNCHANGED <<det, targets, transaction_log, pc, all_sales, fetched, targets_to_alert, now,
                   credited, alerted, marked, applied,
                   observedVars, outerVars>>

\* the task saving the bazaar fetched as the snapshot of every player whose
\* task has not completed
MonitorPlayer_SavesAll(player_id, data) ==
    /\ pc = "monitor"
    /\ player_id \in monitoring
    /\ monitoring' = monitoring \ {player_id}
    /\ IF IsNull(data)
       THEN UNCHANGED <<snapshots, results, emitted, scenario>>
       ELSE LET r == detect_sales_for_player(snapshots, player_id, Value(data))
            IN  /\ Len(emitted) + Len(r.sales) <= MaxLog
                /\ scenario' = [scenario EXCEPT
                                    ![player_id] = ScenarioAfterFetch(player_id, Value(data))]
                /\ snapshots' = [q \in Players |->
                                    IF q \in monitoring THEN r.store[player_id] ELSE r.store[q]]
                /\ results' = [q \in (DOMAIN results) \cup {player_id} |->
                                  IF q = player_id THEN r.sales ELSE results[q]]
                /\ emitted' = emitted \o r.sales
    /\ UNCHANGED <<det, targets, transaction_log, pc, all_sales, fetched, targets_to_alert, now,
                   credited, alerted, marked, applied,
                   observedVars, outerVars>>

\* Phase 4: the task monitor_player(player_id); data is NULL when
\* fetch_user_data returned nothing, and the task returns None
MonitorPlayer(player_id, data) ==
    /\ pc = "monitor"
    /\ player_id \in monitoring
    /\ monitoring' = monitoring \ {player_id}
    /\ IF IsNull(data)
       THEN UNCHANGED <<snapshots, results, emitted, scenario>>
       ELSE LET r == detect_sales_for_player(snapshots, player_id, Value(data))
            IN  /\ Len(emitted) + Len(r.sales) <= MaxLog
                /\ scenario' = [scenario EXCEPT
                                    ![player_id] = ScenarioAfterFetch(player_id, Value(data))]
                /\ snapshots' = r.store
                /\ results' = [q \in (DOMAIN results) \cup {player_id} |->
                                  IF q = player_id THEN r.sales ELSE results[q]]
                /\ emitted' = emitted \o r.sales
    /\ UNCHANGED <<det, targets, transaction_log, pc, all_sales, fetched, targets_to_alert, now,
                   credited, alerted, marked, applied,
                   observedVars, outerVars>>

\* Phase 5: the sales and the profile updates of the results
CollectResults ==
    /\ pc = "monitor"
    /\ monitoring = {}
    /\ all_sales' = AllSales(results, Ascending(DOMAIN results))
    /\ fetched' = DOMAIN results
    /\ results' = << >>
    /\ pc' = "process"
    /\ UNCHANGED <<detVars, targets, transaction_log, targets_to_alert, now, credited, alerted,
                   marked, monitoring, emitted, applied,
                   observedVars, scenario, outerVars>>

\* close(): the task of the monitor is cancelled where it waits in a cycle;
\* the bot is started again later over the same database
Close ==
    /\ pc /= "idle"
    /\ pc' = "idle"
    /\ monitoring' = {}
    /\ results' = << >>
    /\ all_sales' = << >>
    /\ fetched' = {}
    /\ targets_to_alert' = << >>
    /\ UNCHANGED <<detVars, targets, transaction_log, now, credited, alerted, marked, emitted,
                   applied,
                   observedVars, scenario, outerVars>>

Init ==
    /\ snapshots = [p \in Players |-> EmptySnapshot]
    /\ det = NoCall
    /\ InitCycleVars

Next ==
    \/ \E discovered_players \in SUBSET Players : StartCycle(discovered_players)
    \/ \E player_id \in Players :
          \E data \in {NULL} \cup {<<b>> : b \in CycleBazaars} :
             MonitorPlayer(player_id, data)
    \/ CollectResults
    \/ CycleTail(CycleProfiles)
    \/ Close

Spec == Init /\ [][Next]_vars

(***************************************************************************)
(* Rule specification: the cycles of the ledger specification over the     *)
(* statuses the rules tell apart, each with a player that was active in    *)
(* the last two minutes or not.  One player, a VIP or not, is the only one *)
(* that sells; a cycle fetches it, with one item sold or none, and every   *)
(* alert is delivered.  The steps record the statuses and the visits       *)
(* observed.                                                               *)
(***************************************************************************)
RuleStatuses ==
    {<<"Okay", "Okay">>,
     <<"Traveling", "Traveling to South Africa">>,
     <<"Abroad", "In South Africa">>,
     <<"Traveling", "Returning to Torn from South Africa">>,
     <<"Abroad", "In Cayman Islands">>,
     <<"Hospital", "Mugged by Duke">>,
     <<"Abroad", "Mugged by Duke">>,
     <<"Federal", "In federal jail for 2 days">>}

RuleProfiles == {Profile(<<m>>, st[1], st[2]) : m \in {0, 5}, st \in RuleStatuses}

RuleItems == {206}

\* Phases 4 and 5 of a cycle that fetches the one player that sells
GatherResultsOf(player_id, order_sold) ==
    /\ \A k \in 1..Len(transaction_log) : transaction_log[k].player_id = player_id
    /\ GatherResults({player_id}, order_sold)

NextRules ==
    \/ \E player_id \in Players :
          \E order_sold \in [{player_id} -> Arrangements(RuleItems)] :
             GatherResultsOf(player_id, order_sold)
    \/ ProcessDetectedSales
    \/ \E profile_of \in [fetched -> RuleProfiles] : ObservedBatchUpdateProfileData(profile_of)
    \/ ObservedApplyBusinessLogic
    \/ GetTargetsForAlerts
    \/ SendSingleAlert("sent")
    \/ EndCycle

SpecRules == InitLedger /\ [][NextRules]_vars

(***************************************************************************)
(* The rule specification with a clock: between two cycles the loop sleeps *)
(* and the time of datetime.now() advances, in hours.                      *)
(***************************************************************************)
MaxHours == 3

\* await asyncio.sleep(check_interval) in Monitor.start, as many times as
\* an hour takes
Sleep ==
    /\ pc = "idle"
    /\ now < MaxHours
    /\ now' = now + 1
    /\ UNCHANGED <<detVars, targets, transaction_log, pc, all_sales, fetched,
                   targets_to_alert, credited, alerted, marked, taskVars, applied,
                   observedVars, scenario, outerVars>>

NextStale ==
    \/ NextRules
    \/ Sleep

SpecStale == InitLedger /\ [][NextStale]_vars

(***************************************************************************)
(* Closed-bazaar specification: the cycles of the ledger specification in  *)
(* which the data fetched for a player says whether its bazaar is open.    *)
(***************************************************************************)
\* the dict _make_request returns for a player
FetchedData(player_id, sales, bazaar_is_open) ==
    [player_id |-> player_id, sales |-> sales, bazaar_is_open |-> bazaar_is_open]

\* the dict monitor_player returns: player_id, sales, profile_data and
\* bazaar; the key bazaar_is_open of data is not copied
MonitorResult(data) == [player_id |-> data.player_id, sales |-> data.sales]

\* result.get('bazaar_is_open', True)
BazaarIsOpenOf(result) ==
    IF "bazaar_is_open" \in DOMAIN result THEN result.bazaar_is_open ELSE TRUE

\* Phase 5.5: drop the players that closed their bazaar, reset the VIPs
RECURSIVE DropClosedBazaars(_, _)
DropClosedBazaars(table, gathered) ==
    IF gathered = << >> THEN table
    ELSE LET result == Head(gathered)
             player_id == result.player_id
             bazaar_is_open == BazaarIsOpenOf(result)
             tracked == player_id \in DOMAIN table
             after == IF ~ bazaar_is_open /\ player_id \notin VipPlayers /\ tracked
                      THEN reset_target(table, player_id)
                      ELSE IF ~ bazaar_is_open /\ player_id \in VipPlayers /\ tracked
                      THEN update_accumulated_and_travel(table, player_id, 0, NULL)
                      ELSE table
         IN  DropClosedBazaars(after, Tail(gathered))

RECURSIVE ResultsOf(_, _, _)
ResultsOf(order_fetched, order_sold, closed_players) ==
    IF order_fetched = << >> THEN << >>
    ELSE LET p == Head(order_fetched)
         IN  <<MonitorResult(FetchedData(p, SalesOfItems(p, order_sold[p]),
                                         p \notin closed_players))>>
             \o ResultsOf(Tail(order_fetched), order_sold, closed_players)

\* Phases 4 to 5.5: the results gathered for fetched_players, of which
\* closed_players were fetched with bazaar_is_open false
GatherClosedResults(fetched_players, order_sold, closed_players) ==
    /\ pc = "idle"
    /\ fetched' = fetched_players
    /\ closed' = closed_players
    /\ LET gathered == ResultsOf(Ascending(fetched_players), order_sold, closed_players)
           after == DropClosedBazaars(targets, gathered)
       IN  /\ all_sales' = AllSales([p \in fetched_players |-> SalesOfItems(p, order_sold[p])],
                                    Ascending(fetched_players))
           /\ targets' = after
           /\ credited' = CreditedAfter(after, credited)
           /\ marked' = MarkedAfter(after, marked)
    /\ Len(transaction_log) + Len(all_sales') <= MaxLog
    /\ pc' = "process"
    /\ UNCHANGED <<detVars, transaction_log, targets_to_alert, now, alerted, taskVars,
                   applied, observedVars, scenario, key_calls, plan, loopVars, fetchVars, discVars,
                   last_send>>

NextClosed ==
    \/ \E fetched_players \in SUBSET Players :
          \E order_sold \in [fetched_players -> Arrangements(Items)] :
             \E closed_players \in SUBSET fetched_players :
                GatherClosedResults(fetched_players, order_sold, closed_players)
    \/ CycleTail(LedgerProfiles)

SpecClosed == InitLedger /\ [][NextClosed]_vars

(***************************************************************************)
(* Loop specification: the tasks that the ready events of the bot create,  *)
(* each running Monitor.start() of the Monitor object it got, and close()  *)
(* of the bot.  A cycle is one step here: it completes, or a step of it    *)
(* raises and the handler of _run_cycle logs the error.                    *)
(***************************************************************************)
storeVars == <<detVars, targets, transaction_log, pc, all_sales, fetched, targets_to_alert,
               now, credited, alerted, marked, taskVars, applied, observedVars, scenario,
               closed, key_calls, plan, fetchVars, discVars, last_send>>

\* on_ready: init_monitor replaces the global Monitor by a new one, and a
\* new task of start_monitoring replaces monitor_task
on_ready ==
    /\ ~ shutdown
    /\ ready < MaxReady
    /\ ready' = ready + 1
    /\ is_running' = [is_running EXCEPT ![ready + 1] = FALSE]
    /\ task' = [task EXCEPT ![ready + 1] = [at |-> "waiting", monitor |-> 0, last |-> "none"]]
    /\ UNCHANGED <<storeVars, shutdown>>

\* start_monitoring after its sleep: get_monitor() and the head of start()
start_monitoring(t) ==
    /\ task[t].at = "waiting"
    /\ IF is_running[ready]
       THEN /\ task' = [task EXCEPT ![t].at = "returned", ![t].monitor = ready]
            /\ UNCHANGED is_running
       ELSE /\ is_running' = [is_running EXCEPT ![ready] = TRUE]
            /\ task' = [task EXCEPT ![t].at = "loop", ![t].monitor = ready]
    /\ UNCHANGED <<storeVars, ready, shutdown>>

\* while self.is_running
LoopTest(t) ==
    /\ task[t].at = "loop"
    /\ task' = [task EXCEPT ![t].at = IF is_running[task[t].monitor] THEN "cycle"
                                      ELSE "returned"]
    /\ UNCHANGED <<storeVars, ready, is_running, shutdown>>

\* await self._run_cycle(): the cycle completes, or a step of it raises an
\* Exception, which the handler of _run_cycle logs; start() goes on to its
\* sleep in both cases
run_cycle_RaisePropagates(t, outcome) ==
    /\ task[t].at = "cycle"
    /\ task' = [task EXCEPT ![t].at = IF outcome = "raised" THEN "crashed" ELSE "sleeping",
                            ![t].last = outcome]
    /\ UNCHANGED <<storeVars, ready, is_running, shutdown>>

run_cycle(t, outcome) ==
    /\ task[t].at = "cycle"
    /\ task' = [task EXCEPT ![t].at = "sleeping", ![t].last = outcome]
    /\ UNCHANGED <<storeVars, ready, is_running, shutdown>>

\* await asyncio.sleep(self.check_interval) is over
EndSleep(t) ==
    /\ task[t].at = "sleeping"
    /\ task' = [task EXCEPT ![t].at = "loop"]
    /\ UNCHANGED <<storeVars, ready, is_running, shutdown>>

\* close() of the bot: stop() of the global Monitor and the cancellation of
\* monitor_task
close ==
    /\ ~ shutdown
    /\ ready > 0
    /\ shutdown' = TRUE
    /\ is_running' = [is_running EXCEPT ![ready] = FALSE]
    /\ task' = [task EXCEPT ![ready].at = IF task[ready].at = "returned" THEN "returned"
                                           ELSE "cancelled"]
    /\ UNCHANGED <<storeVars, ready>>

\* the event loop ends after close(): every task left is cancelled
Exit ==
    /\ shutdown
    /\ \E t \in Monitors : task[t].at \notin {"none", "returned", "cancelled"}
    /\ task' = [t \in Monitors |->
                   IF task[t].at \in {"none", "returned", "cancelled"} THEN task[t]
                   ELSE [task[t] EXCEPT !.at = "cancelled"]]
    /\ UNCHANGED <<storeVars, ready, is_running, shutdown>>

TaskStep(t) ==
    \/ start_monitoring(t)
    \/ LoopTest(t)
    \/ \E outcome \in {"completed", "raised"} : run_cycle(t, outcome)
    \/ EndSleep(t)

NextLoops ==
    \/ on_ready
    \/ \E t \in Monitors : TaskStep(t)
    \/ close
    \/ Exit

SpecLoops == InitLedger /\ [][NextLoops]_vars

\* the event loop runs every task that is ready to run
LiveSpecLoops == SpecLoops /\ \A t \in Monitors : WF_vars(TaskStep(t))

(***************************************************************************)
(* Bad-data specification: the cycles of the ledger specification in which *)
(* the last action of a fetched profile may fail to parse:                 *)
(* parse_last_action_minutes returns None and the column is stored NULL.   *)
(***************************************************************************)
BadDataProfiles ==
    {Profile(<<5>>, "Okay", "Okay"),
     Profile(<<0>>, "Okay", "Okay"),
     Profile(NULL, "Okay", "Okay")}

NextBadData ==
    \/ \E fetched_players \in SUBSET Players :
          \E order_sold \in [fetched_players -> Arrangements(Items)] :
             GatherResults(fetched_players, order_sold)
    \/ CycleTail(BadDataProfiles)

SpecBadData == InitLedger /\ [][NextBadData]_vars

(***************************************************************************)
(* Fetch specification: the calls of fetch_user_data of a cycle, one at a  *)
(* time, over the pool of keys of the APIKeyManager.                       *)
(***************************************************************************)
\* _reset_expired_counters when the minute of the keys has passed
reset_expired_counters(usage) ==
    [k \in DOMAIN usage |->
        [count |-> 0, status |-> IF usage[k].status = "rate_limited" THEN "active"
                                 ELSE usage[k].status]]

NextIndex(index) == (index % Len(ApiKeys)) + 1

\* the loop of get_available_key from current_index: the key found, or NULL
\* after len(api_keys) attempts
RECURSIVE FindKey(_, _, _)
FindKey(usage, index, attempts) ==
    IF attempts >= Len(ApiKeys) THEN [api_key |-> NULL, usage |-> usage, index |-> index]
    ELSE IF usage[index].status \in {"permanently_bad", "rate_limited"}
    THEN FindKey(usage, NextIndex(index), attempts + 1)
    ELSE IF usage[index].count < KEY_CALL_LIMIT
    THEN [api_key |-> <<index>>,
          usage   |-> [usage EXCEPT ![index].count = @ + 1],
          index   |-> IF usage[index].count + 1 >= KEY_CALL_LIMIT THEN NextIndex(index)
                      ELSE index]
    ELSE FindKey(usage, NextIndex(index), attempts + 1)

get_available_key(usage, index, minute_passed) ==
    FindKey(IF minute_passed THEN reset_expired_counters(usage) ELSE usage, index, 0)

\* the storeVars of the loop specification without the variables of the fetch
fetchFrame == <<detVars, targets, transaction_log, pc, all_sales, fetched, targets_to_alert,
                now, credited, alerted, marked, taskVars, applied, observedVars, scenario,
                closed, key_calls, plan, loopVars, discVars, last_send>>

\* Phase 4 starts over: the fetches of a new cycle
NewFetchCycle ==
    /\ fetch.at = "idle"
    /\ \E p \in Players : requests[p].returned
    /\ requests' = [p \in Players |-> NoRequests]
    /\ UNCHANGED <<fetchFrame, key_usage, current_index, fetch>>

\* monitor_player calls fetch_user_data(user_id), once in a cycle
fetch_user_data(user_id) ==
    /\ fetch.at = "idle"
    /\ ~ requests[user_id].returned
    /\ fetch' = [at |-> "get_key", user_id |-> user_id, api_key |-> NULL]
    /\ UNCHANGED <<fetchFrame, key_usage, current_index, requests>>

\* key_manager.get_available_key(); without a key fetch_user_data returns None
GetAvailableKey(minute_passed) ==
    /\ fetch.at = "get_key"
    /\ LET r == get_available_key(key_usage, current_index, minute_passed)
       IN  /\ key_usage' = r.usage
           /\ current_index' = r.index
           /\ IF IsNull(r.api_key)
              THEN /\ fetch' = NoFetch
                   /\ requests' = [requests EXCEPT ![fetch.user_id].returned = TRUE]
              ELSE /\ fetch' = [fetch EXCEPT !.at = "request", !.api_key = r.api_key]
                   /\ UNCHANGED requests
    /\ UNCHANGED fetchFrame

\* _make_request(user_id, api_key): the data, or None after a status other
\* than 200, an error of the API (5: report_rate_limit, 2, 13, 18:
\* report_invalid_key), a response without profile or a network error; after
\* None the loop of fetch_user_data takes the next key
make_request(outcome) ==
    /\ fetch.at = "request"
    /\ requests' = [requests EXCEPT
                       ![fetch.user_id].made = IF @ < 2 THEN @ + 1 ELSE 2,
                       ![fetch.user_id].returned = (outcome = "data")]
    /\ fetch' = IF outcome = "data" THEN NoFetch
                ELSE [fetch EXCEPT !.at = "get_key", !.api_key = NULL]
    /\ key_usage' = IF outcome = "rate_limit"
                    THEN [key_usage EXCEPT ![Value(fetch.api_key)].status = "rate_limited"]
                    ELSE IF outcome = "invalid_key"
                    THEN [key_usage EXCEPT ![Value(fetch.api_key)].status = "permanently_bad"]
                    ELSE key_usage
    /\ UNCHANGED <<fetchFrame, current_index>>

NextFetch ==
    \/ NewFetchCycle
    \/ \E user_id \in Players : fetch_user_data(user_id)
    \/ \E minute_passed \in BOOLEAN : GetAvailableKey(minute_passed)
    \/ \E outcome \in {"data", "failed", "rate_limit", "invalid_key"} : make_request(outcome)

SpecFetch == InitLedger /\ [][NextFetch]_vars

(***************************************************************************)
(* The cycles of Spec in which nothing fails: no statement of the database *)
(* raises, the task is not cancelled and every alert is delivered.         *)
(***************************************************************************)
NextEndToEnd ==
    \/ \E discovered_players \in SUBSET Players : StartCycle(discovered_players)
    \/ \E player_id \in Players :
          \E data \in {NULL} \cup {<<b>> : b \in CycleBazaars} :
             MonitorPlayer(player_id, data)
    \/ CollectResults
    \/ ProcessDetectedSales
    \/ \E profile_of \in [fetched -> CycleProfiles] : BatchUpdateProfileData(profile_of)
    \/ ApplyBusinessLogic
    \/ GetTargetsForAlerts
    \/ SendSingleAlert("sent")
    \/ EndCycle

SpecEndToEnd == Init /\ [][NextEndToEnd]_vars

(***************************************************************************)
(* Properties of the cycle (specification Spec).                           *)
(***************************************************************************)
Count(events, e) == Cardinality({k \in 1..Len(events) : events[k] = e})

\* the sale events that the rows of the transaction log record
LoggedEvents ==
    [k \in 1..Len(transaction_log) |->
        SaleEvent(transaction_log[k].player_id, transaction_log[k].item_id,
                  transaction_log[k].quantity, transaction_log[k].unit_price)]

\* C1: every sale event emitted by detect is credited exactly once: it is
\* never applied by more than one accumulate call nor logged as more than one
\* row, and once the cycle that advanced the stored snapshot past it is over
\* (also a cycle that ended in an error) it has been applied by exactly one
\* accumulate call and logged as exactly one row.
C1_CreditedExactlyOnce ==
    /\ \A e \in Range(applied) \cup Range(LoggedEvents) :
          /\ Count(applied, e) <= Count(emitted, e)
          /\ Count(LoggedEvents, e) <= Count(emitted, e)
    /\ pc = "idle" =>
          \A e \in Range(emitted) :
             /\ Count(applied, e) = Count(emitted, e)
             /\ Count(LoggedEvents, e) = Count(emitted, e)

(***************************************************************************)
(* Properties of the detector (specification SpecDetect).                  *)
(***************************************************************************)
ItemIds(bazaar) == {bazaar[k].item_id : k \in 1..Len(bazaar)}

EntryOf(bazaar, item_id) == CHOOSE e \in Range(bazaar) : e.item_id = item_id

\* the inventory a fetched bazaar list denotes: item_id -> (quantity, price)
AsSnapshot(bazaar) ==
    [i \in ItemIds(bazaar) |->
        [quantity |-> EntryOf(bazaar, i).quantity, price |-> EntryOf(bazaar, i).price]]

SalesOf(sales, item_id) == {k \in 1..Len(sales) : sales[k].item_id = item_id}

PrevOfCall == det.previous[det.player_id]

\* items listed before and now, with a smaller quantity now
DecreasedItems ==
    {i \in (DOMAIN PrevOfCall) \cap ItemIds(det.current) :
        EntryOf(det.current, i).quantity < PrevOfCall[i].quantity}

\* items listed before and not now
DelistedItems == (DOMAIN PrevOfCall) \ ItemIds(det.current)

\* C2: for an actor with no stored snapshot, detect returns no sale event
\* and leaves the stored snapshot equal to current, whatever current is.
C2_BaselineNoSales ==
    (det.called /\ PrevOfCall = EmptySnapshot)
        => /\ det.sales = << >>
           /\ snapshots[det.player_id] = AsSnapshot(det.current)

C2_Witness ==
    /\ det.called
    /\ PrevOfCall = EmptySnapshot
    /\ Len(det.current) = 2
    /\ snapshots[det.player_id] /= EmptySnapshot

\* C3: an item in both snapshots whose quantity decreased yields exactly one
\* sale event, of previous.quantity - current.quantity units, priced at the
\* previous unit price, with total_value = quantity_sold * previous price.
C3_DecreaseSale ==
    det.called =>
        \A i \in DecreasedItems :
            /\ Cardinality(SalesOf(det.sales, i)) = 1
            /\ \A k \in SalesOf(det.sales, i) :
                /\ det.sales[k].player_id = det.player_id
                /\ det.sales[k].quantity_sold =
                       PrevOfCall[i].quantity - EntryOf(det.current, i).quantity
                /\ det.sales[k].unit_price = PrevOfCall[i].price
                /\ det.sales[k].total_value =
                       (PrevOfCall[i].quantity - EntryOf(det.current, i).quantity)
                           * PrevOfCall[i].price

C3_Witness ==
    /\ det.called
    /\ \E i \in DecreasedItems :
          /\ EntryOf(det.current, i).price /= PrevOfCall[i].price
          /\ \E k \in SalesOf(det.sales, i) : det.sales[k].unit_price = PrevOfCall[i].price

\* C4: an item in the previous snapshot and absent from current yields
\* exactly one sale event, of the whole previous quantity at the previous
\* price.
C4_DelistedSale ==
    det.called =>
        \A i \in DelistedItems :
            /\ Cardinality(SalesOf(det.sales, i)) = 1
            /\ \A k \in SalesOf(det.sales, i) :
                /\ det.sales[k].player_id = det.player_id
                /\ det.sales[k].quantity_sold = PrevOfCall[i].quantity
                /\ det.sales[k].unit_price = PrevOfCall[i].price
                /\ det.sales[k].total_value = PrevOfCall[i].quantity * PrevOfCall[i].price

C4_Witness ==
    /\ det.called
    /\ \E i \in DelistedItems :
          /\ PrevOfCall[i].quantity = MaxQty
          /\ \E k \in SalesOf(det.sales, i) : det.sales[k].quantity_sold = MaxQty
    /\ det.current /= << >>

\* C5: no sale event for an item whose quantity is unchanged or increased
\* (a price-only change included) nor for an item only in current; the
\* events are exactly those of the decreased and the delisted items.
C5_NoOtherSales ==
    det.called =>
        /\ \A i \in Items :
              (i \notin DecreasedItems /\ i \notin DelistedItems)
                  => SalesOf(det.sales, i) = {}
        /\ Len(det.sales) = Cardinality(DecreasedItems \cup DelistedItems)
        /\ \A k \in 1..Len(det.sales) : det.sales[k].quantity_sold > 0

C5_Witness ==
    /\ det.called
    /\ det.sales = << >>
    /\ \E i \in (DOMAIN PrevOfCall) \cap ItemIds(det.current) :
          /\ EntryOf(det.current, i).quantity = PrevOfCall[i].quantity
          /\ EntryOf(det.current, i).price /= PrevOfCall[i].price
    /\ \E i \in ItemIds(det.current) : i \notin DOMAIN PrevOfCall

\* C6: after detect(actor, current) the stored snapshot of the actor is
\* current wholesale, sales or not, and every other actor's snapshot is
\* unchanged.
C6_SnapshotReplaced ==
    det.called =>
        /\ snapshots[det.player_id] = AsSnapshot(det.current)
        /\ \A q \in Players \ {det.player_id} : snapshots[q] = det.previous[q]

C6_Witness ==
    /\ det.called
    /\ det.sales /= << >>
    /\ DelistedItems /= {}
    /\ det.current /= << >>
    /\ \E q \in Players \ {det.player_id} : snapshots[q] /= EmptySnapshot

(***************************************************************************)
(* Properties of the ledger and of the selection (specification            *)
(* SpecLedger).                                                            *)
(***************************************************************************)
\* the sum of the values of a sales_breakdown
RECURSIVE SumBreakdown(_)
SumBreakdown(sales_breakdown) ==
    IF DOMAIN sales_breakdown = {} THEN 0
    ELSE LET i == CHOOSE j \in DOMAIN sales_breakdown : TRUE
         IN  sales_breakdown[i]
             + SumBreakdown([j \in (DOMAIN sales_breakdown) \ {i} |-> sales_breakdown[j]])

AccumulatedOf(table, player_id) ==
    IF player_id \in DOMAIN table THEN table[player_id].accumulated_value ELSE 0

BreakdownOf(table, player_id, item_id) ==
    IF player_id \in DOMAIN table /\ item_id \in DOMAIN table[player_id].sales_breakdown
    THEN table[player_id].sales_breakdown[item_id]
    ELSE 0

SalesOfItem(sales, player_id, item_id) ==
    SelectSeq(sales, LAMBDA e : e.player_id = player_id /\ e.item_id = item_id)

\* the accumulated value and the breakdown of player_id in table_after are
\* those of table_before plus the values of the sales
CreditedBy(table_before, sales, table_after, player_id) ==
    /\ player_id \in DOMAIN table_after
    /\ table_after[player_id].accumulated_value
          = AccumulatedOf(table_before, player_id) + SumValues(SalesOfPlayer(sales, player_id))
    /\ \A i \in Items :
          BreakdownOf(table_after, player_id, i)
            = BreakdownOf(table_before, player_id, i)
              + SumValues(SalesOfItem(sales, player_id, i))

Reordered(sales, f) == [k \in 1..Len(sales) |-> sales[f[k]]]

\* C7: crediting the sale events of a cycle is additive and independent of
\* their order: in whatever order the events of the cycle are processed, the
\* accumulated value of each player sold from is its previous value plus the
\* sum of the values of its events, and each breakdown entry its previous
\* value plus the sum of the values of the events of that item; the cycle
\* leaves that result.
C7_OrderIndependent ==
    [][(pc = "process" /\ pc' = "profiles") =>
          \A p \in {all_sales[k].player_id : k \in 1..Len(all_sales)} :
             /\ CreditedBy(targets, all_sales, targets', p)
             /\ \A f \in Permutations(1..Len(all_sales)) :
                   CreditedBy(targets, all_sales,
                              process_detected_sales([log |-> transaction_log, table |-> targets],
                                                     Reordered(all_sales, f), now).table,
                              p)]_vars

\* two events of different values were credited to one new row in this cycle
C7_Witness ==
    /\ pc = "profiles"
    /\ \E p \in DOMAIN targets :
          /\ IsNull(targets[p].last_action_minutes)
          /\ DOMAIN targets[p].sales_breakdown = Items
          /\ targets[p].accumulated_value = LedgerPrice[206] + LedgerPrice[367]
          /\ LedgerPrice[206] /= LedgerPrice[367]

\* C8: accumulate(actor, item, delta) creates the row when there is none,
\* with accumulated value delta and breakdown {item: delta}; otherwise it adds
\* delta to the accumulated value and to the breakdown entry of that item
\* only; no other row changes.  So the breakdown of every live row sums to
\* the deltas credited since the row was created, whatever resets or
\* deductions changed its accumulated value.
C8_Accumulate ==
    /\ \A p \in DOMAIN targets : SumBreakdown(targets[p].sales_breakdown) = credited[p]
    /\ \A p \in Players, item \in Items :
          LET delta == LedgerPrice[item]
              after == add_or_update_target(targets, p, delta, item, now)
          IN  /\ DOMAIN after = (DOMAIN targets) \cup {p}
              /\ \A q \in (DOMAIN targets) \ {p} : after[q] = targets[q]
              /\ after[p].accumulated_value = AccumulatedOf(targets, p) + delta
              /\ \A i \in Items :
                    BreakdownOf(after, p, i)
                      = BreakdownOf(targets, p, i) + (IF i = item THEN delta ELSE 0)
              /\ p \notin DOMAIN targets => DOMAIN after[p].sales_breakdown = {item}

\* a live row credited twice whose accumulated value a rule changed in between
C8_Witness ==
    \E p \in DOMAIN targets :
       /\ credited[p] = LedgerPrice[206] + LedgerPrice[367]
       /\ SumBreakdown(targets[p].sales_breakdown) = credited[p]
       /\ targets[p].accumulated_value = LedgerPrice[367]
       /\ targets[p].sa_deduction_applied

\* the rows that meet the four criteria of the selection
EligiblePlayers(table) ==
    {p \in DOMAIN table :
        /\ table[p].accumulated_value >= MIN_ACCUMULATED
        /\ table[p].last_action_minutes /= NULL
        /\ table[p].last_action_minutes[1] >= MIN_INACTIVITY
        /\ table[p].status_state = <<"Okay">>
        /\ \/ table[p].last_alerted_value = NULL
           \/ table[p].accumulated_value > table[p].last_alerted_value[1]}

\* C9: selectEligible returns exactly the rows with accumulated value >= the
\* minimum, last_action_minutes set and >= the minimum inactivity,
\* status_state "Okay", and last_alerted_value unset or below the accumulated
\* value; each once, with its columns, by descending accumulated value.
C9_SelectEligible ==
    [][(pc = "select" /\ pc' = "deliver") =>
          LET result == targets_to_alert'
          IN  /\ {result[k].player_id : k \in 1..Len(result)} = EligiblePlayers(targets)
              /\ Len(result) = Cardinality(EligiblePlayers(targets))
              /\ \A k \in 1..Len(result) : result[k] = TargetDict(targets, result[k].player_id)
              /\ \A j, k \in 1..Len(result) :
                    j < k => result[j].accumulated_value >= result[k].accumulated_value]_vars

\* two rows were selected, the row of the greater player id first, while
\* nothing of the selection has been delivered
C9_Witness ==
    /\ pc = "deliver"
    /\ Len(targets_to_alert) = 2
    /\ targets_to_alert[1].player_id > targets_to_alert[2].player_id
    /\ targets_to_alert[1].accumulated_value > targets_to_alert[2].accumulated_value

\* C10 as stated: after an alert for a player was delivered and marked with
\* value v, no later selection returns the player with an accumulated value
\* <= v
C10_NeverAgainAtOrBelow ==
    \A k \in 1..Len(targets_to_alert) :
       LET target == targets_to_alert[k]
       IN  \/ IsNull(alerted[target.player_id])
           \/ target.accumulated_value > Value(alerted[target.player_id])

\* C10: after an alert for a player was delivered and marked with value v,
\* and for as long as the row marked is not deleted, no later selection
\* returns the row with an accumulated value <= v; and no selection returns a
\* row whose accumulated value equals its last_alerted_value.
C10_NoDuplicateWhileAlive ==
    \A k \in 1..Len(targets_to_alert) :
       LET target == targets_to_alert[k]
       IN  /\ \/ IsNull(marked[target.player_id])
              \/ target.accumulated_value > Value(marked[target.player_id])
           /\ target.last_alerted_value /= <<target.accumulated_value>>

\* a row marked at a value is selected again at a greater value
C10_Witness ==
    /\ pc = "deliver"
    /\ \E k \in 1..Len(targets_to_alert) :
          LET target == targets_to_alert[k]
          IN  /\ ~ IsNull(marked[target.player_id])
              /\ Value(marked[target.player_id]) >= MIN_ACCUMULATED
              /\ target.last_alerted_value = marked[target.player_id]
              /\ target.accumulated_value > Value(marked[target.player_id])


\* C11: while a row is alive (it exists before and after the step), its
\* last_alerted_value does not decrease, whichever operation takes the step:
\* accumulate, the profile update, the rule engine or markAlerted.
C11_AlertedValueMonotone ==
    [][\A p \in (DOMAIN targets) \cap (DOMAIN targets') :
          Value(targets'[p].last_alerted_value) >= Value(targets[p].last_alerted_value)]_vars

\* a row marked at a value and then written by the rule engine, which
\* lowered its accumulated value and left last_alerted_value
C11_Witness ==
    \E p \in DOMAIN targets :
        /\ ~ IsNull(marked[p])
        /\ targets[p].last_alerted_value = marked[p]
        /\ Value(marked[p]) > 0
        /\ targets[p].accumulated_value < Value(marked[p])

(***************************************************************************)
(* Properties of two cycles end to end (SpecEndToEnd).                     *)
(***************************************************************************)
ScenarioSale(p) ==
    LET first == scenario[p].first[1]
        second == scenario[p].second[1]
    IN  SaleEvent(p, first.item_id, first.quantity - second.quantity, first.price)

PlayersOf(target_list) == {target_list[i].player_id : i \in 1..Len(target_list)}

\* the state of a player whose baseline is stored: no row, and no sale
\* emitted or logged since
BaselineStored(p) ==
    /\ snapshots[p] = AsSnapshot(scenario[p].first)
    /\ Len(SalesOfPlayer(emitted, p)) = scenario[p].emitted
    /\ Len(SalesOfPlayer(transaction_log, p)) = scenario[p].logged
    /\ p \notin DOMAIN targets

\* the state of a player in the cycle of its decrease
DecreaseCredited(p) ==
    LET sale == ScenarioSale(p)
        sales == SalesOfPlayer(emitted, p)
    IN  /\ snapshots[p] = AsSnapshot(scenario[p].second)
        /\ Len(sales) = scenario[p].emitted + 1
        /\ sales[Len(sales)] = sale
        /\ pc \in {"monitor", "process"} => p \notin DOMAIN targets
        /\ pc \in {"profiles", "rules"} =>
               /\ p \in DOMAIN targets
               /\ targets[p].accumulated_value = sale.total_value
               /\ Len(SalesOfPlayer(transaction_log, p)) = scenario[p].logged + 1
        /\ ( /\ pc \in {"rules", "select"}
             /\ p \in DOMAIN targets
             /\ targets[p].status_state = <<"Okay">>
             /\ Value(targets[p].last_action_minutes) >= ONLINE_MINUTES )
           => targets[p].accumulated_value = sale.total_value

\* C12: a player without row and without snapshot whose first fetch lists
\* one entry (quantity q1 at price P) has the baseline stored and nothing
\* credited; when its next fetch lists the entry with a smaller quantity q2,
\* that cycle emits one sale of (q1 - q2) * P, creates the row with
\* accumulated_value (q1 - q2) * P, the rule engine keeps the row of a player
\* fetched "Okay" and inactive for 2 minutes or more, and the selection of the
\* cycle returns the player when the value reaches min_accumulated and the
\* inactivity min_inactivity.
C12_EndToEnd ==
    [][\A p \in Players :
          /\ scenario'[p].stage = "baseline" => BaselineStored(p)'
          /\ scenario'[p].stage = "sold" => DecreaseCredited(p)'
          /\ ( /\ scenario[p].stage = "sold"
               /\ pc = "rules"
               /\ targets[p].status_state = <<"Okay">>
               /\ Value(targets[p].last_action_minutes) >= ONLINE_MINUTES )
             => p \in DOMAIN targets'
          /\ ( /\ scenario[p].stage = "sold"
               /\ pc = "select"
               /\ p \in DOMAIN targets
               /\ targets[p].status_state = <<"Okay">>
               /\ Value(targets[p].last_action_minutes) >= ONLINE_MINUTES
               /\ Value(targets[p].last_action_minutes) >= MIN_INACTIVITY
               /\ ScenarioSale(p).total_value >= MIN_ACCUMULATED )
             => p \in PlayersOf(targets_to_alert')]_vars

\* the second cycle of a player that listed 5 and then 2 has selected it
\* with 3 times the price
C12_Witness ==
    \E p \in Players :
        /\ scenario[p].stage = "sold"
        /\ scenario[p].first[1].quantity = 5
        /\ scenario[p].second[1].quantity = 2
        /\ pc = "deliver"
        /\ p \in PlayersOf(targets_to_alert)
        /\ targets[p].accumulated_value = 3 * scenario[p].first[1].price


(***************************************************************************)
(* Properties of the rule engine (SpecRules).  A pass is a step of Phase 8 *)
(* that ran to its end; targets is the table it read and targets' the      *)
(* table it left.                                                          *)
(***************************************************************************)
RulePass == pc = "rules" /\ pc' = "select"

StateOf(row) == Value(row.status_state)

DescriptionOf(row) == Value(row.status_description)

\* the money-storage location
InMoneyStorage(description) ==
    description \in {"Traveling to Cayman Islands", "In Cayman Islands",
                     "Returning to Torn from Cayman Islands"}

\* the "Mugged by X" pattern
MuggedBy(description) == description \in {"Mugged by Duke"}

\* inactivity below the online threshold of 2 minutes
Online(row) == Value(row.last_action_minutes) < 2

\* in flight or abroad
Traveling(row) == StateOf(row) \in {"Traveling", "Abroad"}

\* the online rule as the engine applies it to a VIP on the way to South
\* Africa: the row is set to 0 unless the state is "Abroad"
OnlineResetOfVip(p, row) == p \in VipPlayers /\ Online(row) /\ StateOf(row) /= "Abroad"

\* C13: in a pass over a row that stays, the player on the way to South
\* Africa or in it, a row that an earlier pass of the same visit has read
\* is not reduced again: its accumulated_value is left (or set to 0 by the
\* online rule); the pass that finds sa_deduction_applied clear reduces the
\* value by the constant 20,000,000, once, and sets the flag.
C13_NoSecondDeduction ==
    [][RulePass =>
         \A p \in (DOMAIN targets) \cap (DOMAIN targets') :
            InTransitPenalty(DescriptionOf(targets[p])) =>
               /\ targets'[p].sa_deduction_applied
               /\ (visit[p].passes >= 1 \/ targets[p].sa_deduction_applied) =>
                      targets'[p].accumulated_value =
                          IF OnlineResetOfVip(p, targets[p]) THEN 0
                          ELSE targets[p].accumulated_value
               /\ (~ targets[p].sa_deduction_applied) =>
                      targets'[p].accumulated_value =
                          IF OnlineResetOfVip(p, targets[p]) THEN 0
                          ELSE targets[p].accumulated_value - 20000000]_vars

\* the second pass of a visit has left the value the first pass reduced
C13_Witness ==
    /\ pc = "select"
    /\ \E p \in (DOMAIN rule_targets) \cap (DOMAIN targets) :
          /\ InTransitPenalty(DescriptionOf(rule_targets[p]))
          /\ rule_targets[p].sa_deduction_applied
          /\ visit[p].passes = 2
          /\ visit[p].deductions = 1
          /\ targets[p].accumulated_value = rule_targets[p].accumulated_value
          /\ targets[p].accumulated_value = credited[p] - 20000000

\* C14: within one visit of a player to South Africa the passes deduct the
\* constant once: never twice, also when the row is dropped and created
\* again during the visit, and once as soon as a pass has read the row.
C14_OncePerVisit ==
    \A p \in Players :
        /\ visit[p].deductions <= 1
        /\ visit[p].passes >= 1 => visit[p].deductions = 1

\* the player landed: it is fetched "Okay" and the cycle before had
\* observed it abroad
Landed(p) == StateOf(targets[p]) = "Okay" /\ previous_status[p] = <<"Abroad">>

\* C15: a pass over a row that stays clears a set sa_deduction_applied when
\* the player has landed, and only then.
C15_ClearedOnLanding ==
    [][RulePass =>
         \A p \in (DOMAIN targets) \cap (DOMAIN targets') :
            targets[p].sa_deduction_applied =>
               (targets'[p].sa_deduction_applied <=> ~ Landed(p))]_vars

\* C16: a pass over a row whose description names the Cayman Islands
\* deletes the row of a player that is no VIP, and leaves the row of a VIP
\* with accumulated_value 0.
C16_MoneyStorage ==
    [][RulePass =>
         \A p \in DOMAIN targets :
            InMoneyStorage(DescriptionOf(targets[p])) =>
               IF p \in VipPlayers
               THEN p \in DOMAIN targets' /\ targets'[p].accumulated_value = 0
               ELSE p \notin DOMAIN targets']_vars

\* the pass has set the credited row of a VIP in the Cayman Islands to 0
C16_Witness ==
    /\ pc = "select"
    /\ \E p \in (DOMAIN rule_targets) \cap (DOMAIN targets) :
          /\ p \in VipPlayers
          /\ InMoneyStorage(DescriptionOf(rule_targets[p]))
          /\ rule_targets[p].accumulated_value > 0
          /\ targets[p].accumulated_value = 0

\* C17: a pass over a row whose description starts with "Mugged by"
\* deletes the row of a player that is no VIP, traveling or not, and leaves
\* the row of a VIP with accumulated_value 0.
C17_Mugged ==
    [][RulePass =>
         \A p \in DOMAIN targets :
            MuggedBy(DescriptionOf(targets[p])) =>
               IF p \in VipPlayers
               THEN p \in DOMAIN targets' /\ targets'[p].accumulated_value = 0
               ELSE p \notin DOMAIN targets']_vars

\* the pass has deleted the row of a mugged player abroad that is no VIP
C17_Witness ==
    /\ pc = "select"
    /\ \E p \in (DOMAIN rule_targets) \ VipPlayers :
          /\ MuggedBy(DescriptionOf(rule_targets[p]))
          /\ StateOf(rule_targets[p]) = "Abroad"
          /\ p \notin DOMAIN targets

C19_TravelingSuppressesOnline ==
    [][RulePass =>
         \A p \in DOMAIN targets :
            ( /\ Traveling(targets[p])
              /\ Online(targets[p])
              /\ ~ InMoneyStorage(DescriptionOf(targets[p]))
              /\ ~ MuggedBy(DescriptionOf(targets[p])) ) =>
               /\ p \in DOMAIN targets'
               /\ targets'[p].accumulated_value =
                      IF /\ InTransitPenalty(DescriptionOf(targets[p]))
                         /\ ~ targets[p].sa_deduction_applied
                      THEN targets[p].accumulated_value - 20000000
                      ELSE targets[p].accumulated_value]_vars

Stale(row, current_time) == row.last_sale_time < current_time - STALE_HOURS

TerminalRuleMatched(row) ==
    \/ InMoneyStorage(DescriptionOf(row))
    \/ MuggedBy(DescriptionOf(row))
    \/ (Online(row) /\ StateOf(row) /= "Abroad")

\* C22: once rule 1, 3 or 4 has matched a player in a pass, no rule of
\* lower priority changes its record in that pass: the record of a player
\* that is no VIP is deleted by the matching rule, and the record of a VIP
\* is left as the matching rule wrote it, present with accumulated_value 0.
C22_ShortCircuit ==
    [][RulePass =>
         \A p \in DOMAIN targets :
            TerminalRuleMatched(targets[p]) =>
               IF p \in VipPlayers
               THEN /\ p \in DOMAIN targets'
                    /\ targets'[p].accumulated_value = 0
               ELSE p \notin DOMAIN targets']_vars

\* C23: no step of a cycle deletes the record of a VIP: a record of a VIP
\* that is in the table stays in the table.
C23_VipNeverDropped ==
    [][\A p \in VipPlayers : p \in DOMAIN targets => p \in DOMAIN targets']_vars

\* the step that ends a cycle that ran through all its phases
CycleEnds == pc = "deliver" /\ pc' = "idle"

\* C24: at the end of a cycle that fetched a player with its bazaar closed,
\* the player has no record if it is no VIP, and a record with
\* accumulated_value 0 at most if it is a VIP, whatever sales the cycle
\* detected for it.
C24_ClosedBazaar ==
    [][CycleEnds =>
         \A p \in closed :
            IF p \in VipPlayers
            THEN p \in DOMAIN targets' => targets'[p].accumulated_value = 0
            ELSE p \notin DOMAIN targets']_vars

\* C25: the snapshot store and the target table are never written while a
\* fetch of Phase 4 is in flight: a step that changes either store leaves no
\* task of Phase 4 with its fetch still to finish.
C25_SingleWriter ==
    [][(snapshots' /= snapshots \/ targets' /= targets) => monitoring' = {}]_vars

\* C27: the stop of the bot abandons no cycle with its sales half applied:
\* when close() ends the cycle in flight, no sale that the detector has
\* returned in this cycle, its snapshot advanced, is still to be credited.
C27_StopLosesNothing ==
    [][Close =>
         /\ all_sales = << >>
         /\ \A q \in DOMAIN results : results[q] = << >>]_vars

(***************************************************************************)
(* Properties of the loop (SpecLoops, LiveSpecLoops).                      *)
(***************************************************************************)
InCycle == {t \in Monitors : task[t].at = "cycle"}

\* C26: at most one execution of _run_cycle is in progress at any time.
C26_OneCycleAtATime == Cardinality(InCycle) <= 1

\* the loop of the task has been stopped: its task is cancelled, its
\* Monitor is not running, or the loop has found it not running and returned
Stopped(t) ==
    \/ task[t].at \in {"cancelled", "returned"}
    \/ task[t].monitor \in Monitors /\ ~ is_running[task[t].monitor]

\* C28: after a cycle in which a step raised, the loop of the task starts
\* a further cycle, unless it has been stopped.
C28_NextCycleAfterError ==
    \A t \in Monitors :
        (task[t].last = "raised" /\ task[t].at /= "cycle")
            ~> (task[t].at = "cycle" \/ Stopped(t))

\* a cycle runs in a loop whose last cycle raised
C28_Witness ==
    \E t \in Monitors :
        /\ task[t].at = "cycle"
        /\ task[t].last = "raised"
        /\ ~ Stopped(t)

\* the rows of the table whose profile has every field the rules read
GoodRows(table) ==
    [p \in {q \in DOMAIN table : /\ ~ IsNull(table[q].last_action_minutes)
                                 /\ ~ IsNull(table[q].status_description)} |-> table[p]]

\* C29: a row that lacks a field of the profile is the only one skipped: the
\* rule pass of the cycle treats every other row as a pass over the other
\* rows alone does, and the cycle goes on to select the targets to alert.
C29_BadDataIsolated ==
    [][(pc = "rules" /\ pc' /= "rules" /\ DOMAIN GoodRows(targets) /= {}) =>
           /\ pc' = "select"
           /\ GoodRows(targets') = apply_business_logic(GoodRows(targets), now).table]_vars

\* C30: at most one request is made for a player in a cycle: after a
\* request for it has failed, no further request for it is made before the
\* next cycle.
C30_NoRetry == \A p \in Players : requests[p].made <= 1

(***************************************************************************)
(* Properties of the cycle (SpecEndToEnd).                                 *)
(***************************************************************************)
\* the task of p ends without a result: its fetch returned nothing
FailedFetchStep(p) ==
    /\ pc = "monitor"
    /\ p \in monitoring
    /\ p \notin monitoring'
    /\ p \notin DOMAIN results'

\* the columns that batch_update_profile_data writes
ProfileFields(row) ==
    <<row.last_action_minutes, row.status_state, row.status_description, row.travel_state>>

\* C31: a task whose fetch returns nothing leaves the snapshot of its
\* player and emits no sale; the player is not among the results that
\* Phase 5 collects, and Phases 6 and 7 then credit nothing to it and leave
\* the profile columns of its row as they are.
C31_FailedFetchChangesNothing ==
    [][\A p \in Players :
          /\ FailedFetchStep(p) => (snapshots'[p] = snapshots[p] /\ emitted' = emitted)
          /\ (pc = "monitor" /\ pc' = "process" /\ p \notin DOMAIN results) =>
                (p \notin fetched' /\ SalesOfPlayer(all_sales', p) = << >>)
          /\ (pc \in {"process", "profiles"} /\ p \notin fetched) =>
                /\ credited'[p] = credited[p]
                /\ p \in DOMAIN targets =>
                      /\ p \in DOMAIN targets'
                      /\ ProfileFields(targets'[p]) = ProfileFields(targets[p])]_vars

\* the VIP, fetched in every cycle, has a snapshot and a row, and the cycle
\* has updated the profiles of the other player only: its own fetch failed
C31_Witness ==
    /\ pc = "rules"
    /\ fetched = Players \ VipPlayers
    /\ \E p \in VipPlayers :
          /\ p \in DOMAIN targets
          /\ snapshots[p] /= EmptySnapshot

(***************************************************************************)
(* Discovery specification: Monitor._run_cycle from the discovery of       *)
(* Phase 1 on.  The listings of each enabled item are fetched by a task    *)
(* under the semaphore of discover_active_players, the players of Phase 3  *)
(* are fetched by the tasks of Phase 4 under the semaphore of _run_cycle,  *)
(* and the cycle goes on as in the end-to-end specification.  The two      *)
(* semaphores are scaled down to the players and the items of the model.   *)
(***************************************************************************)
\* the value of asyncio.Semaphore(60) in discover_active_players, scaled
MaxListingFetches == 1

\* the value of asyncio.Semaphore(100) in _run_cycle, scaled
MaxWorkers == 1

\* config monitoring.top_bazaars_count, scaled
top_bazaars == 1

\* the listings of a response of weav3r, by the player_id of each listing,
\* in ascending order of price
UpstreamListings == UNION {[1..n -> Players] : n \in 0..(top_bazaars + 1)}

\* what session.get gives for an item: a response, or an exception
Responses ==
    {[raised |-> TRUE, status_code |-> 0, listings |-> << >>],
     [raised |-> FALSE, status_code |-> 403, listings |-> << >>]}
    \cup {[raised |-> FALSE, status_code |-> 200, listings |-> l] : l \in UpstreamListings}

\* Weav3rClient.fetch_bazaar_data for a response that did not raise: None
\* unless the status is 200, else the first top_n listings
fetch_bazaar_data(response, top_n) ==
    IF response.status_code /= 200 THEN NULL
    ELSE IF response.listings = << >> THEN <<<< >>>>
    ELSE <<SubSeq(response.listings, 1,
                  IF top_n < Len(response.listings) THEN top_n ELSE Len(response.listings))>>

\* the loop over the gathered results: an exception is skipped, and so is
\* a result that is None or empty
PlayersOfResult(response, top_n) ==
    IF response.raised THEN {}
    ELSE LET result == fetch_bazaar_data(response, top_n)
         IN  IF IsNull(result) \/ Value(result) = << >> THEN {}
             ELSE Range(Value(result))

NoDiscovery == [at |-> "idle", players |-> {}]

\* discover_active_players up to the creation of the tasks
discover_active_players(enabled_items) ==
    /\ pc = "idle"
    /\ discovery.at = "idle"
    /\ IF enabled_items = {}
       THEN /\ discovery' = [at |-> "returned", players |-> {}]
            /\ UNCHANGED item_fetch
       ELSE /\ discovery' = [at |-> "gather", players |-> {}]
            /\ item_fetch' = [i \in enabled_items |->
                                 [at |-> "waiting", response |-> NULL]]
    /\ UNCHANGED <<detVars, targets, transaction_log, pc, all_sales, fetched, targets_to_alert,
                   now, credited, alerted, marked, taskVars, applied, observedVars, scenario,
                   closed, key_calls, plan, loopVars, fetchVars, last_send, acquired>>

ListingFetchesInFlight == {i \in DOMAIN item_fetch : item_fetch[i].at = "fetching"}

\* fetch_with_semaphore(item) enters: async with semaphore
fetch_with_semaphore(item) ==
    /\ item \in DOMAIN item_fetch
    /\ item_fetch[item].at = "waiting"
    /\ Cardinality(ListingFetchesInFlight) < MaxListingFetches
    /\ item_fetch' = [item_fetch EXCEPT ![item].at = "fetching"]
    /\ UNCHANGED <<detVars, targets, transaction_log, pc, all_sales, fetched, targets_to_alert,
                   now, credited, alerted, marked, taskVars, applied, observedVars, scenario,
                   closed, key_calls, plan, loopVars, fetchVars, last_send, discovery, acquired>>

\* the call of fetch_bazaar_data in fetch_with_semaphore(item) ends and
\* the semaphore is released
FetchBazaarData(item, response) ==
    /\ item \in DOMAIN item_fetch
    /\ item_fetch[item].at = "fetching"
    /\ item_fetch' = [item_fetch EXCEPT ![item] = [at |-> "done", response |-> <<response>>]]
    /\ UNCHANGED <<detVars, targets, transaction_log, pc, all_sales, fetched, targets_to_alert,
                   now, credited, alerted, marked, taskVars, applied, observedVars, scenario,
                   closed, key_calls, plan, loopVars, fetchVars, last_send, discovery, acquired>>

\* asyncio.gather has every result: the players of the listings
GatherListings ==
    /\ discovery.at = "gather"
    /\ \A i \in DOMAIN item_fetch : item_fetch[i].at = "done"
    /\ discovery' = [at |-> "returned",
                     players |-> UNION {PlayersOfResult(Value(item_fetch[i].response),
                                                        top_bazaars) : i \in DOMAIN item_fetch}]
    /\ item_fetch' = << >>
    /\ UNCHANGED <<detVars, targets, transaction_log, pc, all_sales, fetched, targets_to_alert,
                   now, credited, alerted, marked, taskVars, applied, observedVars, scenario,
                   closed, key_calls, plan, loopVars, fetchVars, last_send, acquired>>

\* Phases 2 and 3 leaving out the VIPs
CombineActiveMonitoring_WithoutVips ==
    /\ pc = "idle"
    /\ discovery.at = "returned"
    /\ LET watch_list_players == get_watch_list_players(targets)
           active_monitoring == discovery.players \cup watch_list_players
       IN  IF active_monitoring = {}
           THEN UNCHANGED <<pc, monitoring, results>>
           ELSE /\ monitoring' = active_monitoring
                /\ results' = << >>
                /\ pc' = "monitor"
    /\ discovery' = NoDiscovery
    /\ acquired' = {}
    /\ scenario' = [p \in Players |-> IF scenario[p].stage = "sold" THEN NoScenario
                                       ELSE scenario[p]]
    /\ UNCHANGED <<detVars, targets, transaction_log, all_sales, fetched, targets_to_alert, now,
                   credited, alerted, marked, emitted, applied,
                   observedVars, closed, key_calls, plan, loopVars, fetchVars, last_send, item_fetch>>

\* Phases 2 and 3 after discover_active_players has returned, and the
\* creation of the tasks of Phase 4
CombineActiveMonitoring ==
    /\ pc = "idle"
    /\ discovery.at = "returned"
    /\ LET watch_list_players == get_watch_list_players(targets) \cup VipPlayers
           active_monitoring == discovery.players \cup watch_list_players
       IN  IF active_monitoring = {}
           THEN UNCHANGED <<pc, monitoring, results>>
           ELSE /\ monitoring' = active_monitoring
                /\ results' = << >>
                /\ pc' = "monitor"
    /\ discovery' = NoDiscovery
    /\ acquired' = {}
    /\ scenario' = [p \in Players |-> IF scenario[p].stage = "sold" THEN NoScenario
                                       ELSE scenario[p]]
    /\ UNCHANGED <<detVars, targets, transaction_log, all_sales, fetched, targets_to_alert, now,
                   credited, alerted, marked, emitted, applied,
                   observedVars, closed, key_calls, plan, loopVars, fetchVars, last_send, item_fetch>>

\* the tasks of Phase 4 inside async with semaphore
WorkersInFlight == acquired \cap monitoring

\* monitor_player(player_id) enters without waiting for the semaphore
AcquireSemaphore_Unbounded(player_id) ==
    /\ pc = "monitor"
    /\ player_id \in monitoring \ acquired
    /\ acquired' = acquired \cup {player_id}
    /\ UNCHANGED <<detVars, targets, transaction_log, pc, all_sales, fetched, targets_to_alert,
                   now, credited, alerted, marked, taskVars, applied, observedVars, scenario,
                   closed, key_calls, plan, loopVars, fetchVars, last_send, item_fetch, discovery>>

\* monitor_player(player_id) enters: async with semaphore
AcquireSemaphore(player_id) ==
    /\ pc = "monitor"
    /\ player_id \in monitoring \ acquired
    /\ Cardinality(WorkersInFlight) < MaxWorkers
    /\ acquired' = acquired \cup {player_id}
    /\ UNCHANGED <<detVars, targets, transaction_log, pc, all_sales, fetched, targets_to_alert,
                   now, credited, alerted, marked, taskVars, applied, observedVars, scenario,
                   closed, key_calls, plan, loopVars, fetchVars, last_send, item_fetch, discovery>>

\* the body of monitor_player(player_id) and the release of the semaphore
monitor_player(player_id, data) ==
    /\ player_id \in acquired
    /\ MonitorPlayer(player_id, data)

\* what fetch_user_data gives for a player: nothing, or its bazaar; the
\* bazaar of a VIP is empty
DiscoveryData(player_id) ==
    {NULL} \cup {<<b>> : b \in IF player_id \in VipPlayers THEN {<< >>} ELSE CycleBazaars}

DiscoveryProfiles == {Profile(<<5>>, "Okay", "Okay")}

NextDiscovery ==
    \/ \E enabled_items \in SUBSET Items : discover_active_players(enabled_items)
    \/ \E item \in Items : fetch_with_semaphore(item)
    \/ \E item \in Items, response \in Responses : FetchBazaarData(item, response)
    \/ GatherListings
    \/ CombineActiveMonitoring
    \/ \E player_id \in Players : AcquireSemaphore(player_id)
    \/ \E player_id \in Players :
          \E data \in DiscoveryData(player_id) : monitor_player(player_id, data)
    \/ CollectResults
    \/ ProcessDetectedSales
    \/ \E profile_of \in [fetched -> DiscoveryProfiles] : BatchUpdateProfileData(profile_of)
    \/ ApplyBusinessLogic
    \/ GetTargetsForAlerts
    \/ SendSingleAlert("sent")
    \/ EndCycle

SpecDiscovery == Init /\ [][NextDiscovery]_vars

\* the players of the first top_bazaars listings of the items whose fetch
\* gave listings
TopListed ==
    {p \in Players :
        \E i \in DOMAIN item_fetch :
           LET response == Value(item_fetch[i].response)
           IN  /\ ~ response.raised
               /\ response.status_code = 200
               /\ \E k \in 1..Len(response.listings) :
                     k <= top_bazaars /\ response.listings[k] = p}

\* C32: the players fetched in a cycle are those of the top listings of the
\* enabled items whose fetch succeeded, those with a row in tracked_targets
\* and the VIPs; an item whose fetch fails or raises adds no player and the
\* cycle goes on: each of these players is fetched by its own task.
C32_FetchedSet ==
    [][/\ (discovery.at = "gather" /\ discovery'.at /= "gather") =>
             /\ discovery'.at = "returned"
             /\ discovery'.players = TopListed
       /\ (discovery.at = "returned" /\ discovery'.at /= "returned") =>
             /\ pc' = "monitor"
             /\ monitoring' = discovery.players \cup DOMAIN targets \cup VipPlayers
       /\ (pc = "monitor" /\ pc' = "monitor") => targets' = targets
       /\ (pc = "monitor" /\ pc' /= "monitor") => monitoring = {}]_vars

C32_Witness ==
    /\ pc = "monitor"
    /\ acquired = {}
    /\ monitoring = Players
    /\ DOMAIN targets = Players \ VipPlayers

\* C38: at every moment of a cycle the tasks of Phase 4 that are fetching
\* are at most the value of the semaphore of _run_cycle, and the listing
\* fetches of the discovery in flight are at most the value of the semaphore
\* of discover_active_players, however many players and items there are.
C38_BoundedFetch ==
    /\ Cardinality(WorkersInFlight) <= MaxWorkers
    /\ Cardinality(ListingFetchesInFlight) <= MaxListingFetches

C38_Witness ==
    /\ pc = "monitor"
    /\ Cardinality(WorkersInFlight) = MaxWorkers
    /\ monitoring \ acquired /= {}

(***************************************************************************)
(* Properties of the writes of the ledger (rule specification).            *)
(***************************************************************************)
\* the columns of a row that the sales and the alerts write
LedgerFields(row) ==
    <<row.accumulated_value, row.sales_breakdown, row.last_alerted_value,
      row.sa_deduction_applied, row.last_sale_time>>

\* C33: the batch update of the profiles writes only the recency, status
\* and travel columns of rows that exist: it leaves accumulated_value,
\* sales_breakdown, last_alerted_value and sa_deduction_applied of every
\* row as they are, leaves the rows of the players it has no update for
\* untouched, and creates no row.
C33_ProfileUpdateFrame ==
    [][(pc = "profiles" /\ pc' = "rules") =>
          /\ DOMAIN targets' = DOMAIN targets
          /\ \A p \in DOMAIN targets :
                /\ LedgerFields(targets'[p]) = LedgerFields(targets[p])
                /\ p \notin fetched => targets'[p] = targets[p]]_vars

C33_Witness ==
    /\ pc = "rules"
    /\ \E p \in fetched :
          /\ p \in DOMAIN targets
          /\ targets[p].status_state = <<"Abroad">>
          /\ targets[p].last_alerted_value /= <<0>>
          /\ ~ IsNull(previous_status[p])
          /\ previous_status[p] /= <<"Abroad">>

\* the columns of a row that setAccumulated leaves alone, the flag of the
\* deduction apart
KeptBySetAccumulated(row) ==
    <<row.last_alerted_value, row.sales_breakdown, row.last_sale_time, ProfileFields(row)>>

\* C34: over every table the cycles reach and every player, the table after
\* drop has no row of the player and the other rows as they were; the table
\* after setAccumulated to 0 on a row has the row with accumulated_value 0
\* and last_alerted_value, sales_breakdown, last_sale_time and the profile
\* columns as before; setAccumulated without a row leaves the table as it is.
C34_DropAndSetAccumulated ==
    \A p \in Players :
       /\ LET after == reset_target(targets, p)
          IN  /\ p \notin DOMAIN after
              /\ DOMAIN after = (DOMAIN targets) \ {p}
              /\ \A q \in DOMAIN after : after[q] = targets[q]
       /\ \A flag \in {NULL, <<TRUE>>, <<FALSE>>} :
             LET after == update_accumulated_and_travel(targets, p, 0, flag)
             IN  IF p \in DOMAIN targets
                 THEN /\ DOMAIN after = DOMAIN targets
                      /\ after[p].accumulated_value = 0
                      /\ KeptBySetAccumulated(after[p]) = KeptBySetAccumulated(targets[p])
                      /\ \A q \in (DOMAIN after) \ {p} : after[q] = targets[q]
                 ELSE after = targets

\* a pass has set the row of a VIP that had been alerted to 0, and the
\* other player has no row
C34_Witness ==
    /\ pc = "select"
    /\ \E p \in VipPlayers :
          /\ p \in DOMAIN rule_targets
          /\ rule_targets[p].accumulated_value > 0
          /\ p \in DOMAIN targets
          /\ targets[p].accumulated_value = 0
          /\ targets[p].last_alerted_value /= <<0>>
          /\ KeptBySetAccumulated(targets[p]) = KeptBySetAccumulated(rule_targets[p])
    /\ DOMAIN targets /= Players

\* the phases of _run_cycle that follow one another
PhaseOrder ==
    {<<"idle", "process">>, <<"process", "profiles">>, <<"profiles", "rules">>,
     <<"rules", "select">>, <<"rules", "idle">>, <<"select", "deliver">>,
     <<"deliver", "idle">>}

\* C35: the phases of a cycle follow one another in one order: every sale
\* of the cycle is accumulated, then the profiles are written, then the
\* rule engine runs, and the targets to alert are selected after the rule
\* engine has finished; every player selected in a cycle is in the table the
\* rule pass of that cycle has read, with the profile columns written from
\* the fetch of that cycle when its fetch gave data.
C35_PhaseOrder ==
    [][/\ pc' /= pc => <<pc, pc'>> \in PhaseOrder
       /\ (pc = "process" /\ pc' = "profiles") =>
             /\ all_sales' = << >>
             /\ applied' = applied \o all_sales
       /\ (pc = "profiles" /\ pc' = "rules") => rule_targets' = << >>
       /\ pc' = "deliver" =>
             \A k \in 1..Len(targets_to_alert') :
                LET p == targets_to_alert'[k].player_id
                IN  /\ p \in DOMAIN rule_targets
                    /\ p \in DOMAIN targets
                    /\ ProfileFields(rule_targets[p]) = ProfileFields(targets[p])]_vars

\* a player is selected whose status the profile update of the cycle changed
C35_Witness ==
    /\ pc = "deliver"
    /\ targets_to_alert /= << >>
    /\ LET p == Head(targets_to_alert).player_id
       IN  /\ p \in fetched
           /\ p \in DOMAIN rule_targets
           /\ ~ IsNull(previous_status[p])
           /\ previous_status[p] /= rule_targets[p].status_state

(***************************************************************************)
(* Delivery specification: the cycles of the ledger specification with one *)
(* profile, in which each call of _send_single_alert records whether its   *)
(* message went out to the channel; the alerter may have no channel.       *)
(***************************************************************************)
\* send_alerts without a channel: the error is logged and _send_single_alert
\* is not called
SendAlertsWithoutChannel ==
    /\ pc = "deliver"
    /\ targets_to_alert /= << >>
    /\ targets_to_alert = get_targets_for_alerts(targets, MIN_ACCUMULATED, MIN_INACTIVITY)
    /\ targets_to_alert' = << >>
    /\ last_send' = NoSend
    /\ UNCHANGED <<detVars, targets, transaction_log, pc, all_sales, fetched, now, credited,
                   alerted, marked, taskVars, applied, observedVars, scenario,
                   closed, key_calls, plan, loopVars, fetchVars, discVars>>

NextDeliver ==
    \/ \E fetched_players \in SUBSET Players :
          \E order_sold \in [fetched_players -> Arrangements(Items)] :
             GatherResults(fetched_players, order_sold)
    \/ ProcessDetectedSales
    \/ \E profile_of \in [fetched -> DiscoveryProfiles] : BatchUpdateProfileData(profile_of)
    \/ ApplyBusinessLogic
    \/ GetTargetsForAlerts
    \/ \E outcome \in {"sent", "failed", "unmarked"} : ObservedSendSingleAlert(outcome)
    \/ SendAlertsWithoutChannel
    \/ EndCycle

SpecDeliver == InitLedger /\ [][NextDeliver]_vars

\* a call of _send_single_alert for the first of the targets to alert
SingleAlertStep ==
    /\ pc = "deliver"
    /\ targets_to_alert /= << >>
    /\ targets_to_alert' = Tail(targets_to_alert)
    /\ last_send'.player_id = Head(targets_to_alert).player_id

\* C36: a call of _send_single_alert marks its target with the value alerted
\* if and only if its message was delivered; a target whose delivery failed
\* or that had no channel keeps its last_alerted_value and is selected again
\* from the same table, and the targets after it are still handed to
\* _send_single_alert.
C36_MarkedIffDelivered ==
    [][/\ SingleAlertStep =>
             LET target == Head(targets_to_alert)
                 p == target.player_id
             IN  /\ last_send'.sent <=>
                       /\ alerted' = [alerted EXCEPT ![p] = <<target.accumulated_value>>]
                       /\ targets'[p].last_alerted_value = <<target.accumulated_value>>
                 /\ ~ last_send'.sent =>
                       /\ targets' = targets
                       /\ alerted' = alerted
                       /\ p \in EligiblePlayers(targets')
       /\ (pc = "deliver" /\ targets_to_alert /= << >> /\ ~ SingleAlertStep) =>
             /\ targets' = targets
             /\ alerted' = alerted
             /\ \A k \in 1..Len(targets_to_alert) :
                   targets_to_alert[k].player_id \in EligiblePlayers(targets')]_vars

(***************************************************************************)
(* Order specification: the cycles of the end-to-end specification in      *)
(* which what fetch_user_data gives for each player is fixed before the    *)
(* tasks of Phase 4 start; the tasks complete in any order.                *)
(***************************************************************************)
\* the results of the fetches of the next cycle are fixed, for the store as
\* it is
PlanFetches(data_of) ==
    /\ pc = "idle"
    /\ plan' = [snapshots |-> snapshots, data |-> data_of]
    /\ plan' /= plan
    /\ UNCHANGED <<detVars, targets, transaction_log, pc, all_sales, fetched, targets_to_alert,
                   now, credited, alerted, marked, taskVars, applied, observedVars, scenario,
                   closed, key_calls, loopVars, fetchVars, discVars, last_send>>

PlannedStartCycle(discovered_players) ==
    /\ plan.snapshots = snapshots
    /\ StartCycle(discovered_players)

PlannedMonitorPlayer(player_id) == MonitorPlayer(player_id, plan.data[player_id])

NextOrder ==
    \/ \E data_of \in [Players -> {NULL} \cup {<<b>> : b \in CycleBazaars}] : PlanFetches(data_of)
    \/ \E discovered_players \in SUBSET Players : PlannedStartCycle(discovered_players)
    \/ \E player_id \in Players : PlannedMonitorPlayer(player_id)
    \/ CollectResults
    \/ ProcessDetectedSales
    \/ \E profile_of \in [fetched -> DiscoveryProfiles] : BatchUpdateProfileData(profile_of)
    \/ ApplyBusinessLogic
    \/ GetTargetsForAlerts
    \/ SendSingleAlert("sent")
    \/ EndCycle

SpecOrder == Init /\ [][NextOrder]_vars

\* the sales of player_id for the store of the start of the cycle and the
\* data fixed for it
PlannedSales(player_id) ==
    detect_sales_for_player(plan.snapshots, player_id, Value(plan.data[player_id])).sales

\* C37: when the tasks of Phase 4 have all completed, in whatever order,
\* the snapshot of each player and the sales returned for it are those of
\* its own fetch result and the store of the start of the cycle; the sales
\* handed to Phase 6 are those of the players in the order of the tasks,
\* and the ledger after Phase 6 is the one these sales give.
C37_OrderIndependent ==
    [][/\ (pc = "monitor" /\ pc' = "process") =>
             /\ DOMAIN results \subseteq {p \in Players : ~ IsNull(plan.data[p])}
             /\ \A p \in Players :
                   IF p \in DOMAIN results
                   THEN /\ snapshots[p] = save_player_snapshot(plan.snapshots, p,
                                                               Value(plan.data[p]))[p]
                        /\ results[p] = PlannedSales(p)
                   ELSE snapshots[p] = plan.snapshots[p]
             /\ all_sales' = AllSales([p \in DOMAIN results |-> PlannedSales(p)],
                                      Ascending(DOMAIN results))
       /\ (pc = "process" /\ pc' = "profiles") =>
             targets' = process_detected_sales(
                            [log |-> transaction_log, table |-> targets],
                            AllSales([p \in fetched |-> PlannedSales(p)], Ascending(fetched)),
                            now).table]_vars

\* both players were fetched and the greater one completed first; each has
\* a sale
C37_Witness ==
    /\ pc = "process"
    /\ fetched = Players
    /\ \A p \in Players : SalesOfPlayer(all_sales, p) /= << >>
    /\ Len(emitted) >= 2
    /\ emitted[Len(emitted)].player_id < emitted[Len(emitted) - 1].player_id

(***************************************************************************)
(* Key specification: the APIKeyManager under the tasks of Phase 4, which  *)
(* take keys and make their requests concurrently, so that a key has       *)
(* several requests in flight and their error reports arrive in any order. *)
(***************************************************************************)
\* the requests one key has in flight at most
MaxInFlight == 2

\* the fetchFrame of the fetch specification without the requests in flight
keyFrame == <<detVars, targets, transaction_log, pc, all_sales, fetched, targets_to_alert,
              now, credited, alerted, marked, taskVars, applied, observedVars, scenario,
              closed, plan, loopVars, discVars, last_send>>

\* a task calls get_available_key in fetch_user_data and sends its request
TaskGetsKey(minute_passed) ==
    /\ LET r == get_available_key(key_usage, current_index, minute_passed)
       IN  /\ key_usage' = r.usage
           /\ current_index' = r.index
           /\ IF IsNull(r.api_key)
              THEN UNCHANGED key_calls
              ELSE /\ key_calls.in_flight[Value(r.api_key)] < MaxInFlight
                   /\ key_calls' = [key_calls EXCEPT !.in_flight[Value(r.api_key)] = @ + 1]
    /\ UNCHANGED <<keyFrame, fetch, requests>>

\* a request on api_key ends with error 5: _handle_api_error calls
\* report_rate_limit
report_rate_limit(api_key) ==
    /\ key_calls.in_flight[api_key] > 0
    /\ key_usage' = [key_usage EXCEPT ![api_key].status = "rate_limited"]
    /\ key_calls' = [key_calls EXCEPT !.in_flight[api_key] = @ - 1]
    /\ UNCHANGED <<keyFrame, current_index, fetch, requests>>

\* a request on api_key ends with error 2, 13 or 18: _handle_api_error
\* calls report_invalid_key
report_invalid_key(api_key) ==
    /\ key_calls.in_flight[api_key] > 0
    /\ key_usage' = [key_usage EXCEPT ![api_key].status = "permanently_bad"]
    /\ key_calls' = [in_flight |-> [key_calls.in_flight EXCEPT ![api_key] = @ - 1],
                     invalid   |-> key_calls.invalid \cup {api_key}]
    /\ UNCHANGED <<keyFrame, current_index, fetch, requests>>

\* a request on api_key ends with data, or with a failure that is reported
\* to no one
RequestEnds(api_key) ==
    /\ key_calls.in_flight[api_key] > 0
    /\ key_calls' = [key_calls EXCEPT !.in_flight[api_key] = @ - 1]
    /\ UNCHANGED <<keyFrame, key_usage, current_index, fetch, requests>>

NextKeys ==
    \/ \E minute_passed \in BOOLEAN : TaskGetsKey(minute_passed)
    \/ \E api_key \in 1..Len(ApiKeys) : report_rate_limit(api_key)
    \/ \E api_key \in 1..Len(ApiKeys) : report_invalid_key(api_key)
    \/ \E api_key \in 1..Len(ApiKeys) : RequestEnds(api_key)

SpecKeys == InitLedger /\ [][NextKeys]_vars

\* C39: a key that was reported invalid is never returned by
\* get_available_key again, whatever calls, reports and expiries follow,
\* the reports of the requests that were in flight on it included.
C39_InvalidKeyNeverReturned ==
    [][\A api_key \in key_calls.invalid :
          key_calls'.in_flight[api_key] <= key_calls.in_flight[api_key]]_vars

(***************************************************************************)
(* The fetch specification with fairness: a call of fetch_user_data that   *)
(* is in progress goes on, since get_available_key does not wait and each  *)
(* request ends within the timeout of the session.                         *)
(***************************************************************************)
GetKeyStep == \E minute_passed \in BOOLEAN : GetAvailableKey(minute_passed)

RequestStep == \E outcome \in {"data", "failed", "rate_limit", "invalid_key"} : make_request(outcome)

LiveSpecFetch == SpecFetch /\ WF_vars(GetKeyStep) /\ WF_vars(RequestStep)

\* C40: a call of fetch_user_data in progress eventually returns, with data
\* or with None, whatever the requests answer and also when the minute of
\* the keys passes and their counters are reset while it retries.
C40_FetchTerminates == (fetch.at /= "idle") ~> (fetch.at = "idle")

=============================================================================
